---- MODULE Spec2Model ----
(***************************************************************************)
(* SoundScouting: the project/location store (lib/storage, kept in         *)
(* src/src/lib/pdf.ts lines 97-667) and the paginated project report       *)
(* (lib/pdf, kept in src/unnamed/part_006).                                *)
(*                                                                         *)
(* Strings are sequences of one-character strings, timestamps (ISO strings *)
(* in the code, compared only for equality and order) are naturals, ids    *)
(* (crypto.randomUUID) are fresh naturals.                                 *)
(***************************************************************************)
EXTENDS Integers, Sequences, FiniteSets, TLC

\* ------------------------------------------------------------------ bounds
MaxIds == 3
MaxClock == 2
MaxPhotoIds == 13
MaxLocations == 50
MaxSummaryLines == 2
MaxExtraPages == 1

\* ------------------------------------------------------- program constants
MAX_NOTES_LENGTH == 2000
MAX_PHOTOS == 10

VARIABLES
    localStorage,     \* window.localStorage[STORAGE_KEY], parsed: a sequence of Project
    memoryProjects,   \* the module-level copy of the collection
    clock,            \* the time new Date() returned last
    nextId,           \* the next id createId() hands out
    last,             \* what the last operation returned or threw
    reportProject,    \* exportProjectPdf: the locations of the project being rendered
    pc,               \* exportProjectPdf: where the export stands
    indexTurn,        \* how many index pages the second pass has been through
    doc,              \* the jsPDF document: number of pages and current page
    indexPages,       \* the page numbers set aside for the index
    summaries,        \* the LocationSummary recorded for each location
    startPages,       \* the page each location's title was written on
    printed,          \* the index entries written, in order
    entryIndex,       \* the next summary the index has to print
    render,           \* which rendering of the project this is
    firstPrinted,     \* the index entries of the first rendering
    pageLocation,     \* LocationDetailPage: the location state, <<>> for null
    upload,           \* handlePhotoSelection: its locals while it awaits, <<>> when idle
    toast,            \* LocationDetailPage: the toast state
    grid,             \* addImageGrid: its options and locals, <<>> outside the call
    storageItem,      \* localStorage[STORAGE_KEY] as any writer left it, with its JavaScript types
    decode,           \* preparePhoto: where the call stands and the handles the calls hold
    exporter,         \* handleExportPdf: the exporting flag, the toasts shown, the files saved
    calc              \* a function of the page or the report under evaluation: arguments, steps, result

storeVars == <<localStorage, memoryProjects, clock, nextId, last>>
pdfVars == <<reportProject, pc, indexTurn, doc, indexPages, summaries, startPages, printed,
             entryIndex, render, firstPrinted>>
pageVars == <<pageLocation, upload, toast>>
sideVars == <<grid, storageItem, decode, exporter, calc>>

\* ----------------------------------------------------------------- strings
Whitespace == {" ", "\t", "\n"}

Str(c, n) == [i \in 1..n |-> c]

\* the first index from i upwards, and the last from i downwards, that holds
\* no white space
RECURSIVE trimStart(_, _)
trimStart(value, i) ==
    IF i > Len(value) THEN i
    ELSE IF value[i] \in Whitespace THEN trimStart(value, i + 1)
    ELSE i

RECURSIVE trimEnd(_, _)
trimEnd(value, i) ==
    IF i < 1 THEN i
    ELSE IF value[i] \in Whitespace THEN trimEnd(value, i - 1)
    ELSE i

\* String.prototype.trim
trim(value) == SubSeq(value, trimStart(value, 1), trimEnd(value, Len(value)))

lowerChar(c) ==
    CASE c = "A" -> "a"
      [] c = "B" -> "b"
      [] OTHER -> c

\* String.prototype.toLowerCase
toLowerCase(value) == [i \in 1..Len(value) |-> lowerChar(value[i])]

normalize(value) == toLowerCase(trim(value))

\* ------------------------------------------------------------- the records
NoId == 0          \* excludeId left undefined
NoTime == 0 - 1    \* createdAt left undefined
NoFileName == <<"?">>   \* fileName left undefined
NoCoords == <<>>   \* coords: null

\* Array.prototype.findIndex over ids; 0 stands for -1
findIndex(items, id) ==
    LET hits == {i \in 1..Len(items) : items[i].id = id}
    IN  IF hits = {} THEN 0 ELSE CHOOSE i \in hits : \A j \in hits : i <= j

\* ------------------------------------------------------------- persistence
\* getProjects: the records the store writes are already normal, so
\* normalizeProjects returns them as they are and writes nothing back
getProjects == localStorage

\* projects.find((project) => project.id === id); <<>> stands for undefined
find(projects, id) ==
    LET index == findIndex(projects, id)
    IN  IF index = 0 THEN <<>> ELSE <<projects[index]>>

persist(projects) ==
    /\ memoryProjects' = projects
    /\ localStorage' = projects

\* an operation that only read the collection
readOnly ==
    /\ memoryProjects' = getProjects
    /\ localStorage' = localStorage

\* a comparison that trims but does not fold case
projectNameExists_caseSensitive(name, excludeId) ==
    \E i \in 1..Len(getProjects) :
        /\ getProjects[i].id # excludeId
        /\ trim(getProjects[i].name) = trim(name)

projectNameExists(name, excludeId) ==
    LET normalized == normalize(name)
    IN  \E i \in 1..Len(getProjects) :
            /\ getProjects[i].id # excludeId
            /\ normalize(getProjects[i].name) = normalized

\* a comparison that trims but does not fold case
locationNameExists_caseSensitive(project, name, excludeId) ==
    \E i \in 1..Len(project.locations) :
        /\ project.locations[i].id # excludeId
        /\ trim(project.locations[i].name) = trim(name)

locationNameExists(project, name, excludeId) ==
    LET normalized == normalize(name)
    IN  \E i \in 1..Len(project.locations) :
            /\ project.locations[i].id # excludeId
            /\ normalize(project.locations[i].name) = normalized

returned(op, projects, id) ==
    [op |-> op, ret |-> IF find(projects, id) = <<>> THEN "undefined" ELSE "project"]

\* ---------------------------------------------------------------- projects
createProject(name, now) ==
    LET trimmed == trim(name)
        project == [id |-> nextId, name |-> trimmed, createdAt |-> now,
                    updatedAt |-> now, locations |-> <<>>]
    IN  /\ clock' = now
        /\ IF trimmed = <<>>
           THEN /\ last' = [op |-> "createProject", ret |-> "EMPTY_PROJECT_NAME"]
                /\ UNCHANGED <<localStorage, memoryProjects, nextId>>
           ELSE IF projectNameExists(trimmed, NoId)
           THEN /\ last' = [op |-> "createProject", ret |-> "DUPLICATE_PROJECT_NAME"]
                /\ readOnly
                /\ UNCHANGED nextId
           ELSE /\ nextId' = nextId + 1
                /\ persist(Append(getProjects, project))
                /\ last' = [op |-> "createProject", ret |-> "project"]

\* a removal that takes the projects stored after the one named with it
deleteProject_andLater(id, now) ==
    LET index == findIndex(getProjects, id)
    IN  /\ clock' = now
        /\ persist(IF index = 0 THEN getProjects ELSE SubSeq(getProjects, 1, index - 1))
        /\ last' = [op |-> "deleteProject", ret |-> "projects"]
        /\ UNCHANGED nextId

deleteProject(id, now) ==
    /\ clock' = now
    /\ persist(SelectSeq(getProjects, LAMBDA project : project.id # id))
    /\ last' = [op |-> "deleteProject", ret |-> "projects"]
    /\ UNCHANGED nextId

\* a rename that does not look for the name among the other projects
updateProjectName_unchecked(id, name, now) ==
    LET trimmed == trim(name)
        projects == [i \in 1..Len(getProjects) |->
                        IF getProjects[i].id = id
                        THEN [getProjects[i] EXCEPT !.name = trimmed, !.updatedAt = now]
                        ELSE getProjects[i]]
    IN  /\ clock' = now
        /\ UNCHANGED nextId
        /\ IF trimmed = <<>>
           THEN /\ readOnly
                /\ last' = returned("updateProjectName", getProjects, id)
           ELSE /\ persist(projects)
                /\ last' = returned("updateProjectName", projects, id)

updateProjectName(id, name, now) ==
    LET trimmed == trim(name)
        projects == [i \in 1..Len(getProjects) |->
                        IF getProjects[i].id = id
                        THEN [getProjects[i] EXCEPT !.name = trimmed, !.updatedAt = now]
                        ELSE getProjects[i]]
    IN  /\ clock' = now
        /\ UNCHANGED nextId
        /\ IF trimmed = <<>>
           THEN /\ readOnly
                /\ last' = returned("updateProjectName", getProjects, id)
           ELSE IF projectNameExists(trimmed, id)
           THEN /\ readOnly
                /\ last' = [op |-> "updateProjectName", ret |-> "undefined"]
           ELSE /\ persist(projects)
                /\ last' = returned("updateProjectName", projects, id)

\* --------------------------------------------------------------- locations
createLocation(projectId, name, now) ==
    LET trimmed == trim(name)
        location == [id |-> nextId, name |-> trimmed, notes |-> <<>>,
                     status |-> "pending", photos |-> <<>>, coords |-> NoCoords,
                     createdAt |-> now, updatedAt |-> now]
        index == findIndex(getProjects, projectId)
        projects == [i \in 1..Len(getProjects) |->
                        IF getProjects[i].id # projectId
                        THEN getProjects[i]
                        ELSE [getProjects[i] EXCEPT
                                 !.updatedAt = now,
                                 !.locations = Append(@, location)]]
    IN  /\ clock' = now
        /\ IF trimmed = <<>>
           THEN /\ readOnly
                /\ last' = returned("createLocation", getProjects, projectId)
                /\ UNCHANGED nextId
           ELSE IF index # 0 /\ locationNameExists(getProjects[index], trimmed, NoId)
           THEN /\ readOnly
                /\ last' = [op |-> "createLocation", ret |-> "DUPLICATE_LOCATION_NAME"]
                /\ UNCHANGED nextId
           ELSE /\ nextId' = IF index # 0 THEN nextId + 1 ELSE nextId
                /\ persist(projects)
                /\ last' = returned("createLocation", projects, projectId)

\* a delete that leaves the project's updatedAt as it was
deleteLocation_keepsProjectTime(projectId, locationId, now) ==
    LET projects == [i \in 1..Len(getProjects) |->
                        LET project == getProjects[i]
                            filtered == SelectSeq(project.locations,
                                                  LAMBDA location : location.id # locationId)
                        IN  IF project.id # projectId THEN project
                            ELSE [project EXCEPT !.locations = filtered]]
    IN  /\ clock' = now
        /\ persist(projects)
        /\ last' = returned("deleteLocation", projects, projectId)
        /\ UNCHANGED nextId

deleteLocation(projectId, locationId, now) ==
    LET projects == [i \in 1..Len(getProjects) |->
                        LET project == getProjects[i]
                            filtered == SelectSeq(project.locations,
                                                  LAMBDA location : location.id # locationId)
                        IN  IF project.id # projectId THEN project
                            ELSE IF Len(filtered) = Len(project.locations) THEN project
                            ELSE [project EXCEPT !.updatedAt = now, !.locations = filtered]]
    IN  /\ clock' = now
        /\ persist(projects)
        /\ last' = returned("deleteLocation", projects, projectId)
        /\ UNCHANGED nextId

\* the locations an updater may be handed
storedLocations ==
    UNION {{getProjects[i].locations[j] : j \in 1..Len(getProjects[i].locations)} :
           i \in 1..Len(getProjects)}

\* an update that puts the updated location after its siblings
updatedProjects_movesToEnd(projectId, locationId, updater, now) ==
    [i \in 1..Len(getProjects) |->
        LET project == getProjects[i]
            index == findIndex(project.locations, locationId)
        IN  IF project.id # projectId THEN project
            ELSE IF index = 0 THEN project
            ELSE LET currentLocation == project.locations[index]
                     result == updater[currentLocation]
                 IN  IF result = <<>> THEN project
                     ELSE [project EXCEPT
                              !.updatedAt = now,
                              !.locations =
                                  Append(SelectSeq(@, LAMBDA location : location.id # locationId),
                                         [result[1] EXCEPT !.id = currentLocation.id,
                                                           !.createdAt = currentLocation.createdAt,
                                                           !.updatedAt = now])]]

\* An updater is a function of the location it is handed. The collection
\* updateLocation builds: the updater's result, when it gives one (a
\* one-element sequence; <<>> stands for null), replaces the location and
\* stamps it and its project with now
updatedProjects(projectId, locationId, updater, now) ==
    [i \in 1..Len(getProjects) |->
        LET project == getProjects[i]
            index == findIndex(project.locations, locationId)
        IN  IF project.id # projectId THEN project
            ELSE IF index = 0 THEN project
            ELSE LET currentLocation == project.locations[index]
                     result == updater[currentLocation]
                 IN  IF result = <<>> THEN project
                     ELSE [project EXCEPT
                              !.updatedAt = now,
                              !.locations[index] =
                                  [result[1] EXCEPT !.id = currentLocation.id,
                                                    !.createdAt = currentLocation.createdAt,
                                                    !.updatedAt = now]]]

\* updatedProject is set exactly when some project had the location and the
\* updater gave a result
hasUpdatedProject(projectId, locationId, updater) ==
    \E i \in 1..Len(getProjects) :
        LET project == getProjects[i]
            index == findIndex(project.locations, locationId)
        IN  /\ project.id = projectId
            /\ index # 0
            /\ updater[project.locations[index]] # <<>>

\* call: the operation and what it was called with, ret still to be filled in
updateLocation(call, projectId, locationId, updater, now, missing) ==
    /\ clock' = now
    /\ IF hasUpdatedProject(projectId, locationId, updater)
       THEN /\ persist(updatedProjects(projectId, locationId, updater, now))
            /\ last' = [call EXCEPT !.ret = "project"]
       ELSE /\ readOnly
            /\ last' = [call EXCEPT !.ret = missing]

setSetStatus(projectId, locationId, status, now) ==
    /\ updateLocation([op |-> "setSetStatus", ret |-> ""], projectId, locationId,
                      [location \in storedLocations |-> <<[location EXCEPT !.status = status]>>],
                      now, "undefined")
    /\ UNCHANGED nextId

\* notes stored before their length is looked at
setSetNotes_storesBeforeCheck(projectId, locationId, notes, now) ==
    LET trimmed == trim(notes)
        updater == [location \in storedLocations |-> <<[location EXCEPT !.notes = trimmed]>>]
    IN  /\ clock' = now
        /\ persist(updatedProjects(projectId, locationId, updater, now))
        /\ last' = [op |-> "setSetNotes",
                    ret |-> IF Len(trimmed) > MAX_NOTES_LENGTH THEN "NOTES_TOO_LONG"
                            ELSE IF hasUpdatedProject(projectId, locationId, updater)
                            THEN "project"
                            ELSE "undefined"]
        /\ UNCHANGED nextId

setSetNotes(projectId, locationId, notes, now) ==
    LET trimmed == trim(notes)
    IN  IF Len(trimmed) > MAX_NOTES_LENGTH
        THEN /\ clock' = now
             /\ last' = [op |-> "setSetNotes", ret |-> "NOTES_TOO_LONG"]
             /\ UNCHANGED <<localStorage, memoryProjects, nextId>>
        ELSE /\ updateLocation([op |-> "setSetNotes", ret |-> ""], projectId, locationId,
                               [location \in storedLocations |-> <<[location EXCEPT !.notes = trimmed]>>],
                               now, "undefined")
             /\ UNCHANGED nextId

setSetCoords(projectId, locationId, coords, now) ==
    /\ updateLocation([op |-> "setSetCoords", ret |-> ""], projectId, locationId,
                      [location \in storedLocations |-> <<[location EXCEPT !.coords = coords]>>],
                      now, "undefined")
    /\ UNCHANGED nextId

\* ------------------------------------------------------------------ photos
\* An encoded payload (a data URL) is a number above every id, so that the
\* identifier removeSetPhoto compares with both never confuses the two.
DataUrl(k) == 100 + k

\* input: a bare data URL (isString) or an AddPhotoInput
hasPhoto(location, dataUrl) ==
    \E i \in 1..Len(location.photos) : location.photos[i].dataUrl = dataUrl

\* an updater that appends without looking for the payload
addPhotoUpdater_noDedupe(location, input, now) ==
    <<[location EXCEPT !.photos =
          Append(@, [id |-> nextId, dataUrl |-> input.dataUrl, createdAt |-> now,
                     fileName |-> input.fileName])]>>

addPhotoUpdater(location, input, now) ==
    LET dataUrl == input.dataUrl
        photo == [id |-> nextId,
                  dataUrl |-> dataUrl,
                  createdAt |-> IF input.isString THEN now
                                ELSE IF input.createdAt = NoTime THEN now
                                ELSE input.createdAt,
                  fileName |-> IF input.isString THEN NoFileName ELSE input.fileName]
    IN  IF hasPhoto(location, dataUrl)
        THEN <<location>>
        ELSE <<[location EXCEPT !.photos = Append(@, photo)]>>

\* createId() ran exactly when the updater built a new photo
addsPhoto(projectId, locationId, input) ==
    \E i \in 1..Len(getProjects) :
        LET project == getProjects[i]
            index == findIndex(project.locations, locationId)
        IN  /\ project.id = projectId
            /\ index # 0
            /\ ~hasPhoto(project.locations[index], input.dataUrl)

addSetPhoto(projectId, locationId, input, now) ==
    /\ updateLocation([op |-> "addSetPhoto", ret |-> "", dataUrl |-> input.dataUrl],
                      projectId, locationId,
                      [location \in storedLocations |-> addPhotoUpdater(location, input, now)],
                      now, "ADD_SET_PHOTO_FAILED")
    /\ nextId' = IF addsPhoto(projectId, locationId, input) THEN nextId + 1 ELSE nextId

removePhotoUpdater(location, identifier) ==
    LET filtered == SelectSeq(location.photos,
                              LAMBDA photo : photo.id # identifier /\ photo.dataUrl # identifier)
    IN  IF Len(filtered) = Len(location.photos)
        THEN <<>>
        ELSE <<[location EXCEPT !.photos = filtered]>>

removeSetPhoto(projectId, locationId, identifier, now) ==
    /\ updateLocation([op |-> "removeSetPhoto", ret |-> ""], projectId, locationId,
                      [location \in storedLocations |-> removePhotoUpdater(location, identifier)],
                      now, "undefined")
    /\ UNCHANGED nextId

\* ------------------------------------------------- the location detail page
\* useParams: the project and the location the page is opened on
routeId == 1
routeSetId == 2

\* currentProject.locations.find((item) => item.id === params.setId) ?? null
routeLocation(projects) ==
    LET currentProject == find(projects, routeId)
    IN  IF currentProject = <<>> THEN <<>>
        ELSE find(currentProject[1].locations, routeSetId)

\* A file is its name and the picture in it; image 0 is a file no decoder
\* reads. preparePhoto draws the picture on a canvas and encodes the canvas:
\* <<>> when it throws, else the data URL, which depends on the picture alone.
NoImage == 0
preparePhoto(file) == IF file.image = NoImage THEN <<>> ELSE <<DataUrl(file.image)>>

noToast == [kind |-> "none"]
noUpload == <<>>

\* the mount effect
loadPage ==
    /\ upload = noUpload
    /\ pageLocation' = routeLocation(getProjects)
    /\ readOnly
    /\ last' = [op |-> "findProject",
                ret |-> IF find(getProjects, routeId) = <<>> THEN "undefined" ELSE "project"]
    /\ UNCHANGED <<clock, nextId, upload, toast>>

\* handlePhotoSelection up to its first await
handlePhotoSelection(files) ==
    /\ upload = noUpload
    /\ pageLocation # <<>>
    /\ files # <<>>
    /\ LET remainingSlots == MAX_PHOTOS - Len(pageLocation[1].photos)
       IN  IF remainingSlots <= 0
           THEN /\ toast' = [kind |-> "limit"]
                /\ UNCHANGED upload
           ELSE /\ upload' = <<[files |-> files,
                                remainingSlots |-> remainingSlots,
                                currentLocation |-> pageLocation[1],
                                addedCount |-> 0,
                                duplicateCount |-> 0,
                                failedCount |-> 0]>>
                /\ UNCHANGED toast
    /\ last' = [op |-> "handlePhotoSelection", ret |-> "none"]
    /\ UNCHANGED <<localStorage, memoryProjects, clock, nextId, pageLocation>>

\* the end of the loop: the page takes currentLocation and shows the summary
photoSelectionDone(locals, limitReached) ==
    /\ pageLocation' = <<locals.currentLocation>>
    /\ toast' = [kind |-> "summary",
                 addedCount |-> locals.addedCount,
                 duplicateCount |-> locals.duplicateCount,
                 failedCount |-> locals.failedCount,
                 limitReached |-> limitReached]
    /\ upload' = noUpload

\* from one await of the loop to the next: the rest of the turn for the file
\* preparePhoto has read, then the top of the next turn
photoSelectionNext(locals) ==
    LET rest == [locals EXCEPT !.files = Tail(@)]
    IN  IF rest.files = <<>> THEN photoSelectionDone(rest, FALSE)
        ELSE IF rest.remainingSlots <= 0 THEN photoSelectionDone(rest, TRUE)
        ELSE /\ upload' = <<rest>>
             /\ UNCHANGED <<pageLocation, toast>>

\* a loop whose turn never resumes when preparePhoto rejects
photoPrepared_rejectionPending(now) ==
    /\ upload # noUpload
    /\ preparePhoto(Head(upload[1].files)) # <<>>
    /\ LET locals == upload[1]
           file == Head(locals.files)
           dataUrl == preparePhoto(file)
       IN  IF hasPhoto(locals.currentLocation, dataUrl[1])
           THEN /\ photoSelectionNext([locals EXCEPT !.duplicateCount = @ + 1])
                /\ last' = [op |-> "preparePhoto", ret |-> "dataUrl"]
                /\ UNCHANGED <<localStorage, memoryProjects, clock, nextId>>
           ELSE /\ addSetPhoto(routeId, locals.currentLocation.id,
                               [isString |-> FALSE, dataUrl |-> dataUrl[1],
                                createdAt |-> now, fileName |-> file.name], now)
                /\ IF last'.ret = "project"
                   THEN LET updated == routeLocation(localStorage')
                        IN  photoSelectionNext(
                                [locals EXCEPT
                                    !.currentLocation =
                                        IF updated = <<>> THEN @ ELSE updated[1],
                                    !.addedCount = @ + 1,
                                    !.remainingSlots = @ - 1])
                   ELSE photoSelectionNext([locals EXCEPT !.failedCount = @ + 1])

photoPrepared(now) ==
    /\ upload # noUpload
    /\ LET locals == upload[1]
           file == Head(locals.files)
           dataUrl == preparePhoto(file)
       IN  IF dataUrl = <<>>
           THEN /\ photoSelectionNext([locals EXCEPT !.failedCount = @ + 1])
                /\ last' = [op |-> "preparePhoto", ret |-> "INVALID_IMAGE_DIMENSIONS"]
                /\ UNCHANGED <<localStorage, memoryProjects, clock, nextId>>
           ELSE IF hasPhoto(locals.currentLocation, dataUrl[1])
           THEN /\ photoSelectionNext([locals EXCEPT !.duplicateCount = @ + 1])
                /\ last' = [op |-> "preparePhoto", ret |-> "dataUrl"]
                /\ UNCHANGED <<localStorage, memoryProjects, clock, nextId>>
           ELSE /\ addSetPhoto(routeId, locals.currentLocation.id,
                               [isString |-> FALSE, dataUrl |-> dataUrl[1],
                                createdAt |-> now, fileName |-> file.name], now)
                /\ IF last'.ret = "project"
                   THEN LET updated == routeLocation(localStorage')
                        IN  photoSelectionNext(
                                [locals EXCEPT
                                    !.currentLocation =
                                        IF updated = <<>> THEN @ ELSE updated[1],
                                    !.addedCount = @ + 1,
                                    !.remainingSlots = @ - 1])
                   ELSE photoSelectionNext([locals EXCEPT !.failedCount = @ + 1])

\* refreshLocation(updated) after a store operation of the page
refreshLocation ==
    IF last'.ret = "project"
    THEN pageLocation' = routeLocation(localStorage')
    ELSE UNCHANGED pageLocation

\* notesValue: what the textarea holds when it loses the focus
handleNotesBlur(notesValue, now) ==
    /\ pageLocation # <<>>
    /\ notesValue # pageLocation[1].notes
    /\ setSetNotes(routeId, pageLocation[1].id, notesValue, now)
    /\ refreshLocation
    /\ toast' = [kind |-> IF last'.ret = "NOTES_TOO_LONG" THEN "error"
                          ELSE IF last'.ret = "project" /\ pageLocation' # <<>> THEN "success"
                          ELSE IF last'.ret = "project" THEN "none"
                          ELSE "error"]
    /\ UNCHANGED upload

handleRemovePhoto(photoId, now) ==
    /\ pageLocation # <<>>
    /\ removeSetPhoto(routeId, pageLocation[1].id, photoId, now)
    /\ refreshLocation
    /\ toast' = [kind |-> IF last'.ret # "project" THEN "error"
                          ELSE IF pageLocation' # <<>> THEN "success"
                          ELSE "none"]
    /\ UNCHANGED upload

\* ------------------------------------------------------ the project report
\* Lengths are in hundredths of a point; jsPDF's a4 page is 595.28 x 841.89 pt.
pageWidth == 59528
pageHeight == 84189
marginTop == 7600
marginBottom == 7600
contentWidth == pageWidth - marginTop * 2
lineHeight == 1800
indexHeaderHeight == 5600
summaryLineHeight == 1200

Max(a, b) == IF a >= b THEN a ELSE b

\* Math.ceil(a / b) for a >= 0, b > 0
Ceil(a, b) == (a + b - 1) \div b

availableIndexHeight == pageHeight - marginTop - marginBottom - indexHeaderHeight
linesPerPage == Max(1, availableIndexHeight \div lineHeight)
\* an index of one page whatever the number of locations
indexPageCount_single(locations) == 1

indexPageCount(locations) == Max(1, Ceil(Len(locations), linesPerPage))

\* jsPDF: a new document has one page; addPage appends a page and makes it
\* the current one; setPage makes an existing page current
newDoc == [pages |-> 1, page |-> 1]
addPage(d) == [pages |-> d.pages + 1, page |-> d.pages + 1]
setPage(d, n) == [d EXCEPT !.page = n]
getNumberOfPages(d) == d.pages

RECURSIVE addPages(_, _)
addPages(d, n) == IF n = 0 THEN d ELSE addPages(addPage(d), n - 1)

\* A location of the project under export, as far as the page flow goes:
\* summaryLines is the number of lines splitTextToSize cuts its index summary
\* into, extraPages the number of pages renderLocationInformation adds
\* (through ensureSpace and addImageGrid) while it writes the detail section.
renderLocationInformation(d, location) == addPages(d, location.extraPages)

\* the page count taken before the location's page was added
recordedPage_beforeAddPage(d) == getNumberOfPages(d) - 1

\* the page number the loop records for the location it is about to render
recordedPage(d) == getNumberOfPages(d)

\* how far one index entry moves the cursor
entryAdvance(entry) ==
    Max(lineHeight, entry.summaryLines * summaryLineHeight + lineHeight \div 2)

limitY == pageHeight - marginBottom

\* the while loop of one index page: the entries it prints, starting with
\* entries[index] at cursorY
RECURSIVE indexEntries(_, _, _, _)
indexEntries(entries, index, cursorY, pageNumber) ==
    IF index <= Len(entries) /\ cursorY <= limitY - lineHeight
    THEN <<[entry |-> index, onPage |-> pageNumber, y |-> cursorY,
            page |-> entries[index].page]>>
         \o indexEntries(entries, index + 1, cursorY + entryAdvance(entries[index]),
                         pageNumber)
    ELSE <<>>

beginExport ==
    /\ pc = "idle"
    /\ doc' = newDoc
    /\ indexPages' = <<>>
    /\ summaries' = <<>>
    /\ startPages' = <<>>
    /\ printed' = <<>>
    /\ entryIndex' = 1
    /\ indexTurn' = 0
    /\ pc' = "allocate"
    /\ UNCHANGED <<reportProject, render, firstPrinted>>

\* one turn of the loop that sets the index pages aside
allocateIndexPage ==
    /\ pc = "allocate"
    /\ doc' = addPage(doc)
    /\ indexPages' = Append(indexPages, getNumberOfPages(doc'))
    /\ pc' = IF Len(indexPages') < indexPageCount(reportProject) THEN "allocate"
             ELSE IF reportProject = <<>> THEN "index"
             ELSE "detail"
    /\ UNCHANGED <<reportProject, summaries, startPages, printed, entryIndex, indexTurn,
                   render, firstPrinted>>

\* one turn of the loop over the locations, up to its yieldToBrowser
renderLocation ==
    /\ pc = "detail"
    /\ LET location == reportProject[Len(summaries) + 1]
           opened == addPage(doc)
       IN  /\ summaries' = Append(summaries,
                                  [summaryLines |-> location.summaryLines,
                                   page |-> recordedPage(opened)])
           /\ startPages' = Append(startPages, opened.page)
           /\ doc' = renderLocationInformation(opened, location)
    /\ pc' = IF Len(summaries') < Len(reportProject) THEN "detail" ELSE "index"
    /\ UNCHANGED <<reportProject, indexPages, printed, entryIndex, indexTurn, render, firstPrinted>>

\* one turn of indexPages.forEach
fillIndexPage ==
    /\ pc = "index"
    /\ LET pageNumber == indexPages[indexTurn + 1]
           entries == IF summaries = <<>> /\ indexTurn = 0
                      THEN <<>>
                      ELSE indexEntries(summaries, entryIndex,
                                        marginTop + indexHeaderHeight, pageNumber)
       IN  /\ doc' = setPage(doc, pageNumber)
           /\ printed' = printed \o entries
           /\ entryIndex' = entryIndex + Len(entries)
    /\ indexTurn' = indexTurn + 1
    /\ pc' = IF indexTurn' < Len(indexPages) THEN "index" ELSE "save"
    /\ UNCHANGED <<reportProject, indexPages, summaries, startPages, render, firstPrinted>>

\* doc.setPage(doc.getNumberOfPages()); doc.save(...)
savePdf ==
    /\ pc = "save"
    /\ doc' = setPage(doc, getNumberOfPages(doc))
    /\ pc' = "saved"
    /\ UNCHANGED <<reportProject, indexPages, summaries, startPages, printed, entryIndex,
                   indexTurn, render, firstPrinted>>

\* the same project is exported a second time
exportAgain ==
    /\ pc = "saved"
    /\ render = 1
    /\ render' = 2
    /\ firstPrinted' = printed
    /\ pc' = "idle"
    /\ UNCHANGED <<reportProject, doc, indexPages, summaries, startPages, printed, entryIndex,
                   indexTurn>>

\* ------------------------------------------------------- the store's inputs
\* Ids an operation is addressed with: those in the collection and one that
\* createId has not handed out, which stands for every absent id.
ProjectIds == {localStorage[i].id : i \in 1..Len(localStorage)} \cup {nextId}
\* the ids of the project's locations; any other id finds no location in it
LocationIds(projectId) ==
    UNION {{localStorage[i].locations[j].id : j \in 1..Len(localStorage[i].locations)} :
           i \in {i \in 1..Len(localStorage) : localStorage[i].id = projectId}}
    \cup {nextId}
\* the ids of the location's photos; any other id finds no photo in it
PhotoIds(projectId, locationId) ==
    UNION {UNION {{localStorage[i].locations[j].photos[k].id :
                   k \in 1..Len(localStorage[i].locations[j].photos)} :
                  j \in {j \in 1..Len(localStorage[i].locations) :
                            localStorage[i].locations[j].id = locationId}} :
           i \in {i \in 1..Len(localStorage) : localStorage[i].id = projectId}}
    \cup {nextId}

\* the time new Date() gives next: the clock does not run backwards
Times == {t \in {clock, clock + 1} : t <= MaxClock}

pdfIdle ==
    /\ reportProject = <<>>
    /\ pc = "off"
    /\ indexTurn = 0
    /\ doc = newDoc
    /\ indexPages = <<>>
    /\ summaries = <<>>
    /\ startPages = <<>>
    /\ printed = <<>>
    /\ entryIndex = 1
    /\ render = 1
    /\ firstPrinted = <<>>

pageIdle ==
    /\ pageLocation = <<>>
    /\ upload = noUpload
    /\ toast = noToast

noGrid == <<>>

noItem == [type |-> "missing"]

noDecode == [at |-> "idle", file |-> <<>>, error |-> "none", held |-> {}, calls |-> 0]

noCalc == [fn |-> "none"]

noExport == [at |-> "idle", isExporting |-> FALSE, toasts |-> <<>>, saved |-> 0, requests |-> 0]

sideIdle ==
    /\ grid = noGrid
    /\ storageItem = noItem
    /\ decode = noDecode
    /\ exporter = noExport
    /\ calc = noCalc

\* ----------------------------------------- projects, locations and their names
NameInputs == {<<"a">>, <<" ", "A">>, <<"b">>, <<" ">>}

Init ==
    /\ localStorage = <<>>
    /\ memoryProjects = <<>>
    /\ clock = 0
    /\ nextId = 1
    /\ last = [op |-> "none", ret |-> "none"]
    /\ pdfIdle
    /\ pageIdle
    /\ sideIdle

CreateProject == \E name \in NameInputs :
    nextId <= MaxIds /\ createProject(name, clock)
DeleteProject == \E id \in ProjectIds : deleteProject(id, clock)
UpdateProjectName == \E id \in ProjectIds, name \in NameInputs :
    updateProjectName(id, name, clock)
CreateLocation == \E projectId \in ProjectIds, name \in NameInputs :
    nextId <= MaxIds /\ createLocation(projectId, name, clock)
DeleteLocation == \E projectId \in ProjectIds : \E locationId \in LocationIds(projectId) :
    deleteLocation(projectId, locationId, clock)
SetSetStatus == \E projectId \in ProjectIds : \E locationId \in LocationIds(projectId) :
    setSetStatus(projectId, locationId, "approved", clock)
SetSetNotes == \E projectId \in ProjectIds : \E locationId \in LocationIds(projectId) :
    setSetNotes(projectId, locationId, <<"n", " ">>, clock)
AddSetPhoto == \E projectId \in ProjectIds : \E locationId \in LocationIds(projectId) :
    /\ nextId <= MaxIds
    /\ addSetPhoto(projectId, locationId,
                   [isString |-> FALSE, dataUrl |-> DataUrl(1), createdAt |-> 0,
                    fileName |-> <<"f">>], clock)
RemoveSetPhoto ==
    \E projectId \in ProjectIds : \E locationId \in LocationIds(projectId) :
        \E identifier \in PhotoIds(projectId, locationId) \cup {DataUrl(1)} :
            removeSetPhoto(projectId, locationId, identifier, clock)

Next ==
    \/ (CreateProject /\ UNCHANGED <<pdfVars, pageVars, sideVars>>)
    \/ (DeleteProject /\ UNCHANGED <<pdfVars, pageVars, sideVars>>)
    \/ (UpdateProjectName /\ UNCHANGED <<pdfVars, pageVars, sideVars>>)
    \/ (CreateLocation /\ UNCHANGED <<pdfVars, pageVars, sideVars>>)
    \/ (DeleteLocation /\ UNCHANGED <<pdfVars, pageVars, sideVars>>)
    \/ (SetSetStatus /\ UNCHANGED <<pdfVars, pageVars, sideVars>>)
    \/ (SetSetNotes /\ UNCHANGED <<pdfVars, pageVars, sideVars>>)
    \/ (AddSetPhoto /\ UNCHANGED <<pdfVars, pageVars, sideVars>>)
    \/ (RemoveSetPhoto /\ UNCHANGED <<pdfVars, pageVars, sideVars>>)

vars == <<storeVars, pdfVars, pageVars, sideVars>>

Spec == Init /\ [][Next]_vars

\* ------------------------------------------------------------ name uniqueness
sameName(a, b) == normalize(a) = normalize(b)

nameTaken(name) == \E i \in 1..Len(localStorage) : sameName(localStorage[i].name, name)

\* C1: createProject(n) fails with DuplicateName exactly when some stored
\* project has the same name after trimming and case-folding, and then the
\* collection stays as it was; otherwise, for a non-empty n, it appends exactly
\* one project, with the trimmed name and no locations.
C1_CreateProjectDuplicateIff ==
    [][last'.op = "createProject" => \A name \in NameInputs :
          createProject(name, clock) =>
              /\ (last'.ret = "DUPLICATE_PROJECT_NAME") <=> nameTaken(name)
              /\ nameTaken(name) => localStorage' = localStorage
              /\ (~nameTaken(name) /\ trim(name) # <<>>) =>
                    /\ Len(localStorage') = Len(localStorage) + 1
                    /\ SubSeq(localStorage', 1, Len(localStorage)) = localStorage
                    /\ localStorage'[Len(localStorage')].name = trim(name)
                    /\ localStorage'[Len(localStorage')].locations = <<>>]_vars

\* a create refused for a name that differs from the stored one in case or
\* surrounding blanks only
C1_Witness ==
    /\ last.op = "createProject"
    /\ last.ret = "DUPLICATE_PROJECT_NAME"
    /\ \E i \in 1..Len(localStorage) : localStorage[i].name = <<"A">>

\* C2: no two stored projects have names that are equal after trimming and
\* case-folding.
C2_UniqueProjectNames ==
    \A i, j \in 1..Len(localStorage) :
        i # j => ~sameName(localStorage[i].name, localStorage[j].name)

\* two projects stand side by side after a rename
C2_Witness ==
    /\ Len(localStorage) = 2
    /\ last.op = "updateProjectName"
    /\ last.ret = "project"

locationNameTaken(projectId, name) ==
    \E i \in 1..Len(localStorage) :
        /\ localStorage[i].id = projectId
        /\ \E j \in 1..Len(localStorage[i].locations) :
               sameName(localStorage[i].locations[j].name, name)

uniqueLocationNames ==
    \A i \in 1..Len(localStorage) :
        \A j, k \in 1..Len(localStorage[i].locations) :
            j # k => ~sameName(localStorage[i].locations[j].name,
                               localStorage[i].locations[k].name)

\* C3: no two locations of one project have names that are equal after
\* trimming and case-folding, and createLocation with a colliding name fails
\* with DuplicateName and adds nothing.
C3_UniqueLocationNames ==
    /\ []uniqueLocationNames
    /\ [][last'.op = "createLocation" => \A projectId \in ProjectIds, name \in NameInputs :
             (createLocation(projectId, name, clock) /\ locationNameTaken(projectId, name)) =>
                 /\ last'.ret = "DUPLICATE_LOCATION_NAME"
                 /\ localStorage' = localStorage]_vars

\* a location refused next to the one whose name it collides with
C3_Witness ==
    /\ last.op = "createLocation"
    /\ last.ret = "DUPLICATE_LOCATION_NAME"
    /\ \E i \in 1..Len(localStorage) : Len(localStorage[i].locations) >= 1

\* ---------------------------------------------- one location and its photos
\* the collection after createProject("a") and createLocation(1, "s")
seedLocation ==
    [id |-> routeSetId, name |-> <<"s">>, notes |-> <<>>, status |-> "pending",
     photos |-> <<>>, coords |-> NoCoords, createdAt |-> 0, updatedAt |-> 0]
seedProjects ==
    <<[id |-> routeId, name |-> <<"a">>, createdAt |-> 0, updatedAt |-> 0,
       locations |-> <<seedLocation>>]>>

\* the collection after SeedPhotos more calls of addSetPhoto, each with a
\* picture of its own: one photo short of the limit
SeedPhotos == MAX_PHOTOS - 1
seedPhoto(id) == [id |-> id, dataUrl |-> DataUrl(id), createdAt |-> 0, fileName |-> <<"f">>]
seedPhotoProjects ==
    [seedProjects EXCEPT ![1].locations[1].photos =
        [i \in 1..SeedPhotos |-> seedPhoto(routeSetId + i)]]

\* the page has mounted on the location
InitPhotos ==
    /\ localStorage = seedPhotoProjects
    /\ memoryProjects = seedPhotoProjects
    /\ clock = 0
    /\ nextId = routeSetId + SeedPhotos + 1
    /\ last = [op |-> "findProject", ret |-> "project"]
    /\ pdfIdle
    /\ pageLocation = routeLocation(seedPhotoProjects)
    /\ upload = noUpload
    /\ toast = noToast
    /\ sideIdle

storedPhotos ==
    IF routeLocation(localStorage) = <<>> THEN <<>> ELSE routeLocation(localStorage)[1].photos

\* Pictures to add: one no photo was made of yet, the one after it, and the
\* picture of the first stored photo.
storedImages ==
    IF storedPhotos = <<>> THEN {}
    ELSE {k \in 1..nextId : DataUrl(k) = storedPhotos[1].dataUrl}
PhotoBatches ==
    LET new == [name |-> <<"f">>, image |-> nextId]
        other == [name |-> <<"f">>, image |-> nextId + 1]
        broken == [name |-> <<"f">>, image |-> NoImage]
    IN  {<<new>>, <<new, new>>, <<new, other>>, <<broken>>}
        \cup {<<[name |-> <<"f">>, image |-> k]>> : k \in storedImages}

\* what the photos shown first are removed by, and an identifier of no photo
shownPhotoIds == IF pageLocation = <<>> \/ pageLocation[1].photos = <<>> THEN {}
                 ELSE {pageLocation[1].photos[1].id}
storedIdentifiers ==
    IF storedPhotos = <<>> THEN {nextId}
    ELSE {storedPhotos[1].id, storedPhotos[1].dataUrl, nextId}

HandlePhotoSelection == \E files \in PhotoBatches : handlePhotoSelection(files)
PhotoPrepared == nextId <= MaxPhotoIds /\ photoPrepared(clock)
HandleRemovePhoto == \E photoId \in shownPhotoIds : handleRemovePhoto(photoId, clock)
LoadPage == loadPage
\* The store written by another page of the application, between the batches
\* of this one: a new picture as an AddPhotoInput, a stored one as a bare data URL.
OtherPhotoInputs ==
    {[isString |-> FALSE, dataUrl |-> DataUrl(nextId), createdAt |-> NoTime,
      fileName |-> <<"f">>]}
    \cup {[isString |-> TRUE, dataUrl |-> DataUrl(k), createdAt |-> NoTime,
           fileName |-> NoFileName] : k \in storedImages}
OtherAddSetPhoto == \E input \in OtherPhotoInputs :
    /\ nextId <= MaxPhotoIds
    /\ upload = noUpload
    /\ addSetPhoto(routeId, routeSetId, input, clock)
OtherRemoveSetPhoto == \E identifier \in storedIdentifiers :
    removeSetPhoto(routeId, routeSetId, identifier, clock)

NextPhotos ==
    \/ (HandlePhotoSelection /\ UNCHANGED <<pdfVars, sideVars>>)
    \/ (PhotoPrepared /\ UNCHANGED <<pdfVars, sideVars>>)
    \/ (HandleRemovePhoto /\ UNCHANGED <<pdfVars, sideVars>>)
    \/ (LoadPage /\ UNCHANGED <<pdfVars, sideVars>>)
    \/ (OtherAddSetPhoto /\ UNCHANGED <<pdfVars, pageVars, sideVars>>)
    \/ (OtherRemoveSetPhoto /\ UNCHANGED <<pdfVars, pageVars, sideVars>>)

SpecPhotos == InitPhotos /\ [][NextPhotos]_vars

\* C4: adding a payload the location already holds leaves exactly one photo
\* with that payload, adds no photo, and ends differently from a successful
\* add (which returns the project), so that the caller can tell a duplicate.
C4_DuplicateAddReported ==
    [][(/\ last'.op = "addSetPhoto"
        /\ routeLocation(localStorage) # <<>>
        /\ hasPhoto(routeLocation(localStorage)[1], last'.dataUrl)) =>
            /\ storedPhotos' = storedPhotos
            /\ Cardinality({i \in 1..Len(storedPhotos') :
                               storedPhotos'[i].dataUrl = last'.dataUrl}) = 1
            /\ last'.ret # "project"]_vars

duplicateFree(photos) ==
    \A i, j \in 1..Len(photos) : i # j => photos[i].dataUrl # photos[j].dataUrl

\* C5: in every state reached through addSetPhoto and removeSetPhoto no two
\* photos of one location carry the same encoded payload.
C5_NoDuplicatePayloads ==
    \A i \in 1..Len(localStorage) :
        \A j \in 1..Len(localStorage[i].locations) :
            duplicateFree(localStorage[i].locations[j].photos)

\* addSetPhoto has just returned for a payload that an older photo of the
\* location carries, after a photo was removed
C5_Witness ==
    /\ last.op = "addSetPhoto"
    /\ last.ret = "project"
    /\ Len(storedPhotos) >= 2
    /\ storedPhotos[1].id > routeSetId + 1
    /\ storedPhotos[1].dataUrl = last.dataUrl

\* C6: a location never holds more than 10 photos, whatever batches, single
\* adds and removals came before.
C6_AtMostTenPhotos ==
    \A i \in 1..Len(localStorage) :
        \A j \in 1..Len(localStorage[i].locations) :
            Len(localStorage[i].locations[j].photos) <= MAX_PHOTOS


\* ------------------------------------------------------ one location's notes
InitNotes ==
    /\ localStorage = seedProjects
    /\ memoryProjects = seedProjects
    /\ clock = 0
    /\ nextId = routeSetId + 1
    /\ last = [op |-> "findProject", ret |-> "project"]
    /\ pdfIdle
    /\ pageLocation = <<seedLocation>>
    /\ upload = noUpload
    /\ toast = noToast
    /\ sideIdle

\* notes around the limit: at it, one blank above it, one character above it
NotesInputs ==
    {<<>>, <<"n">>,
     Str("x", MAX_NOTES_LENGTH),
     <<" ">> \o Str("x", MAX_NOTES_LENGTH - 1),
     Str("x", MAX_NOTES_LENGTH) \o <<" ">>,
     Str("x", MAX_NOTES_LENGTH + 1)}

\* the textarea has maxLength = MAX_NOTES_LENGTH
TextareaValues == {notes \in NotesInputs : Len(notes) <= MAX_NOTES_LENGTH}

StatusInputs == {"pending", "approved", "rejected"}

HandleNotesBlur == \E notesValue \in TextareaValues : handleNotesBlur(notesValue, clock)
NotesSetSetNotes == \E locationId \in {routeSetId, nextId}, notes \in NotesInputs :
    setSetNotes(routeId, locationId, notes, clock)
NotesSetSetStatus == \E status \in StatusInputs :
    setSetStatus(routeId, routeSetId, status, clock)
NotesLoadPage == loadPage

NextNotes ==
    \/ (HandleNotesBlur /\ UNCHANGED <<pdfVars, sideVars>>)
    \/ (NotesSetSetNotes /\ UNCHANGED <<pdfVars, pageVars, sideVars>>)
    \/ (NotesSetSetStatus /\ UNCHANGED <<pdfVars, pageVars, sideVars>>)
    \/ (NotesLoadPage /\ UNCHANGED <<pdfVars, sideVars>>)

SpecNotes == InitNotes /\ [][NextNotes]_vars

storedNotes == routeLocation(localStorage)[1].notes

\* C7: setSetNotes accepts notes of exactly 2000 characters and stores them;
\* for notes of more than 2000 characters, counted on the string the caller
\* passed, it fails with NOTES_TOO_LONG and the stored collection stays as it was.
C7_NotesBoundary ==
    [][last'.op = "setSetNotes" => \A notes \in NotesInputs :
          setSetNotes(routeId, routeSetId, notes, clock') =>
              /\ Len(notes) = MAX_NOTES_LENGTH =>
                    /\ last'.ret = "project"
                    /\ storedNotes' = trim(notes)
              /\ Len(notes) > MAX_NOTES_LENGTH =>
                    /\ last'.ret = "NOTES_TOO_LONG"
                    /\ localStorage' = localStorage]_vars


\* ------------------------------------------------- the times of the records
TimedNames == {<<"a">>, <<"b">>}
TimedLocationNames == {<<"s">>}

\* the collection after createProject("a")
InitLoc ==
    /\ localStorage = <<[id |-> routeId, name |-> <<"a">>, createdAt |-> 0, updatedAt |-> 0,
                         locations |-> <<>>]>>
    /\ memoryProjects = localStorage
    /\ clock = 0
    /\ nextId = routeId + 1
    /\ last = [op |-> "createProject", ret |-> "project"]
    /\ pdfIdle
    /\ pageIdle
    /\ sideIdle

TimedUpdateProjectName == \E id \in ProjectIds, name \in TimedNames, now \in Times :
    updateProjectName(id, name, now)
TimedCreateLocation == \E projectId \in ProjectIds, name \in TimedLocationNames, now \in Times :
    nextId <= MaxIds /\ createLocation(projectId, name, now)
TimedDeleteLocation ==
    \E projectId \in ProjectIds, now \in Times : \E locationId \in LocationIds(projectId) :
        deleteLocation(projectId, locationId, now)
TimedSetSetStatus ==
    \E projectId \in ProjectIds, now \in Times : \E locationId \in LocationIds(projectId) :
        setSetStatus(projectId, locationId, "approved", now)
TimedSetSetNotes ==
    \E projectId \in ProjectIds, now \in Times : \E locationId \in LocationIds(projectId) :
        setSetNotes(projectId, locationId, <<"n">>, now)
TimedSetSetCoords ==
    \E projectId \in ProjectIds, now \in Times : \E locationId \in LocationIds(projectId) :
        setSetCoords(projectId, locationId, <<[lat |-> 40416812, lng |-> 0 - 3703812]>>, now)
TimedAddSetPhoto ==
    \E projectId \in ProjectIds, now \in Times : \E locationId \in LocationIds(projectId) :
        /\ nextId <= MaxIds
        /\ addSetPhoto(projectId, locationId,
                       [isString |-> TRUE, dataUrl |-> DataUrl(1), createdAt |-> NoTime,
                        fileName |-> NoFileName], now)
TimedRemoveSetPhoto ==
    \E projectId \in ProjectIds, now \in Times : \E locationId \in LocationIds(projectId) :
        \E identifier \in PhotoIds(projectId, locationId) :
            removeSetPhoto(projectId, locationId, identifier, now)

NextLoc ==
    \/ (TimedUpdateProjectName /\ UNCHANGED <<pdfVars, pageVars, sideVars>>)
    \/ (TimedCreateLocation /\ UNCHANGED <<pdfVars, pageVars, sideVars>>)
    \/ (TimedDeleteLocation /\ UNCHANGED <<pdfVars, pageVars, sideVars>>)
    \/ (TimedSetSetStatus /\ UNCHANGED <<pdfVars, pageVars, sideVars>>)
    \/ (TimedSetSetNotes /\ UNCHANGED <<pdfVars, pageVars, sideVars>>)
    \/ (TimedSetSetCoords /\ UNCHANGED <<pdfVars, pageVars, sideVars>>)
    \/ (TimedAddSetPhoto /\ UNCHANGED <<pdfVars, pageVars, sideVars>>)
    \/ (TimedRemoveSetPhoto /\ UNCHANGED <<pdfVars, pageVars, sideVars>>)

SpecLoc == InitLoc /\ [][NextLoc]_vars

\* the locations of the project after the step that its locations before the
\* step do not hold as they are
touchedLocations(before, after) ==
    {j \in 1..Len(after.locations) :
        \A k \in 1..Len(before.locations) : before.locations[k] # after.locations[j]}

\* a step that changed a location of the project put the time of the step on
\* the project and on every location it created or changed
stampedByMutation(before, after) ==
    after.locations # before.locations =>
        /\ after.updatedAt = clock'
        /\ after.updatedAt >= before.updatedAt
        /\ \A j \in touchedLocations(before, after) :
               after.locations[j].updatedAt = after.updatedAt

renamed(before) ==
    \E name \in TimedNames : updateProjectName(before.id, name, clock')

\* C8 as stated: a mutation of a location of P puts the time of the mutation
\* on P and on the location, and an operation that changes no location of P
\* leaves P's updatedAt as it was.
C8_OnlyLocationsMoveUpdatedAt ==
    [][\A i \in 1..Len(localStorage) :
          LET before == localStorage[i]
              found == find(localStorage', before.id)
          IN  found # <<>> =>
                  /\ stampedByMutation(before, found[1])
                  /\ found[1].locations = before.locations =>
                         found[1].updatedAt = before.updatedAt]_vars

\* C8, amended: a mutation of a location of P puts the time of the mutation on
\* P and on the location, and an operation that changes no location of P
\* leaves P's updatedAt as it was, unless it is updateProjectName on P, which
\* puts the time of the rename on P.
C8_UpdatedAtFollowsMutations ==
    [][\A i \in 1..Len(localStorage) :
          LET before == localStorage[i]
              found == find(localStorage', before.id)
          IN  found # <<>> =>
                  /\ stampedByMutation(before, found[1])
                  /\ found[1].locations = before.locations =>
                         \/ found[1].updatedAt = before.updatedAt
                         \/ /\ renamed(before)
                            /\ found[1].updatedAt = clock']_vars

\* a location was changed after its project was created, and both carry the
\* time of the change
C8_Witness ==
    /\ last.op \in {"setSetStatus", "setSetNotes", "setSetCoords", "addSetPhoto",
                    "removeSetPhoto"}
    /\ last.ret = "project"
    /\ \E i \in 1..Len(localStorage) :
          /\ localStorage[i].createdAt < clock
          /\ localStorage[i].updatedAt = clock
          /\ \E j \in 1..Len(localStorage[i].locations) :
                /\ localStorage[i].locations[j].createdAt < clock
                /\ localStorage[i].locations[j].updatedAt = clock


\* -------------------------------------------------------- projects to export
\* the locations of a project, odd ones of one kind and even ones of another
ReportProjects ==
    {[i \in 1..n |-> IF i % 2 = 1 THEN odd ELSE even] :
        n \in 0..MaxLocations,
        odd \in [summaryLines : 1..MaxSummaryLines, extraPages : 0..MaxExtraPages],
        even \in [summaryLines : 1..MaxSummaryLines, extraPages : 0..MaxExtraPages]}

InitPdf ==
    /\ localStorage = <<>>
    /\ memoryProjects = <<>>
    /\ clock = 0
    /\ nextId = 1
    /\ last = [op |-> "none", ret |-> "none"]
    /\ pageIdle
    /\ sideIdle
    /\ reportProject \in ReportProjects
    /\ pc = "idle"
    /\ indexTurn = 0
    /\ doc = newDoc
    /\ indexPages = <<>>
    /\ summaries = <<>>
    /\ startPages = <<>>
    /\ printed = <<>>
    /\ entryIndex = 1
    /\ render = 1
    /\ firstPrinted = <<>>

NextPdf ==
    \/ (beginExport /\ UNCHANGED <<storeVars, pageVars, sideVars>>)
    \/ (allocateIndexPage /\ UNCHANGED <<storeVars, pageVars, sideVars>>)
    \/ (renderLocation /\ UNCHANGED <<storeVars, pageVars, sideVars>>)
    \/ (fillIndexPage /\ UNCHANGED <<storeVars, pageVars, sideVars>>)
    \/ (savePdf /\ UNCHANGED <<storeVars, pageVars, sideVars>>)
    \/ (exportAgain /\ UNCHANGED <<storeVars, pageVars, sideVars>>)

SpecPdf == InitPdf /\ [][NextPdf]_vars

rendered == pc \in {"save", "saved"}

pageNumbers(entries) == [i \in 1..Len(entries) |-> entries[i].page]

\* C9: the page number printed in a location's index entry is the page its
\* detail section starts on, for projects of 0 to MaxLocations locations, and
\* a second rendering of the project prints the same page numbers.
C9_IndexPagesMatch ==
    /\ \A i \in 1..Len(printed) : printed[i].page = startPages[printed[i].entry]
    /\ (render = 2 /\ rendered) =>
           /\ pageNumbers(printed) = pageNumbers(firstPrinted)
           /\ \A i \in 1..Len(printed) : printed[i].entry = firstPrinted[i].entry

\* a project of fifty locations, some with detail sections of two pages, has
\* been rendered twice, its index on two pages
C9_Witness ==
    /\ render = 2
    /\ pc = "saved"
    /\ Len(reportProject) = 50
    /\ Len(printed) = 50
    /\ \E i \in 1..Len(reportProject) : reportProject[i].extraPages > 0
    /\ \E i \in 1..Len(printed) : printed[i].onPage = 3

\* C10: every location gets exactly one index entry: the index pages set
\* aside from the estimated line count hold all the entries and none is dropped.
C10_EveryLocationIndexed ==
    rendered =>
        \A i \in 1..Len(reportProject) :
            Cardinality({k \in 1..Len(printed) : printed[k].entry = i}) = 1


\* ------------------------------------------------------------ the image grid
MaxImages == 4
MaxNoteLines == 24

gap == 1200
maxImageHeight == 18000
captionSpacing == 600
captionHeight == 1400
columns == IF contentWidth >= 42000 THEN 3 ELSE 2
baseCellWidth == (contentWidth - gap * (columns - 1)) \div columns

\* the pdf variables a location sheet leaves alone
reportVars == <<reportProject, pc, indexTurn, indexPages, summaries, startPages, printed,
                entryIndex, render, firstPrinted>>

\* the height the grid draws an image with, from doc.getImageProperties
imageHeight(props) ==
    LET fullHeight == (baseCellWidth * props.height) \div props.width
        cutWidth == (maxImageHeight * props.width) \div props.height
    IN  IF fullHeight <= maxImageHeight THEN fullHeight
        ELSE IF cutWidth > baseCellWidth THEN fullHeight
        ELSE maxImageHeight

\* getPhotoCaptions gives every photo a caption, so each cell has one
requiredHeight(props) == imageHeight(props) + captionSpacing + captionHeight

\* ensureSpace: the document and the cursor it leaves
ensureSpace(d, currentY, required) ==
    IF currentY + required > pageHeight - marginBottom
    THEN [doc |-> addPage(d), y |-> marginTop]
    ELSE [doc |-> d, y |-> currentY]

\* exportLocationPdf and renderLocationInformation down to the call of
\* addImageGrid, for notes that writeParagraph cuts into noteLines lines, all
\* of them on the first page: the title block, the quick sheet with its four
\* rows, the notes, and the header of the gallery
galleryStart(noteLines) ==
    LET titleEnd == marginTop + 3800 + 2800 + 1800 + 3200
        sheetEnd == titleEnd + 3200 + 4 * 2400
        notesEnd == sheetEnd + 5000 + noteLines * 1400 + 800
        space == ensureSpace(newDoc, notesEnd, 8000)
    IN  [space EXCEPT !.y = @ + 5000]

\* photos as the grid sees them: the pixel sizes of a landscape and of a
\* portrait picture
ImageProps == {[width |-> 4, height |-> 3], [width |-> 3, height |-> 4]}
ImageLists == UNION {[1..n -> ImageProps] : n \in 1..MaxImages}

\* the call of addImageGrid: its locals before the first turn of the loop
beginImageGrid ==
    /\ grid # noGrid
    /\ grid.at = "sheet"
    /\ LET start == galleryStart(grid.noteLines)
       IN  /\ doc' = start.doc
           /\ grid' = [grid EXCEPT !.at = "loop", !.cursorY = start.y]
    /\ UNCHANGED reportVars

\* one turn of the loop of addImageGrid
addImage ==
    /\ grid # noGrid
    /\ grid.at = "loop"
    /\ LET props == grid.images[grid.index]
           overflows == grid.cursorY + requiredHeight(props) > pageHeight - marginBottom
           cursorY == IF overflows THEN marginTop ELSE grid.cursorY
           columnIndex == IF overflows THEN 0 ELSE grid.columnIndex
           rowHeight == Max(IF overflows THEN 0 ELSE grid.rowHeight, requiredHeight(props))
           opened == IF overflows THEN addPage(doc) ELSE doc
           rowEnds == columnIndex + 1 = columns \/ grid.index = Len(grid.images)
       IN  /\ doc' = opened
           /\ grid' = [grid EXCEPT
                          !.index = @ + 1,
                          !.cursorY = IF rowEnds THEN cursorY + rowHeight + gap ELSE cursorY,
                          !.columnIndex = IF rowEnds THEN 0 ELSE columnIndex + 1,
                          !.rowHeight = IF rowEnds THEN 0 ELSE rowHeight,
                          !.cells = Append(@, [page |-> opened.page, column |-> columnIndex,
                                               y |-> cursorY]),
                          !.at = IF grid.index = Len(grid.images) THEN "done" ELSE "loop"]
    /\ UNCHANGED reportVars

\* the location sheet is exported once more
gridAgain ==
    /\ grid # noGrid
    /\ grid.at = "done"
    /\ grid' = [grid EXCEPT !.at = "sheet", !.index = 1, !.cursorY = 0, !.columnIndex = 0,
                            !.rowHeight = 0, !.cells = <<>>]
    /\ doc' = newDoc
    /\ UNCHANGED reportVars

InitGrid ==
    /\ localStorage = <<>>
    /\ memoryProjects = <<>>
    /\ clock = 0
    /\ nextId = 1
    /\ last = [op |-> "none", ret |-> "none"]
    /\ pdfIdle
    /\ pageIdle
    /\ storageItem = noItem
    /\ decode = noDecode
    /\ exporter = noExport
    /\ calc = noCalc
    /\ \E images \in ImageLists, noteLines \in 1..MaxNoteLines :
           grid = [images |-> images, noteLines |-> noteLines, at |-> "sheet", index |-> 1,
                   cursorY |-> 0, columnIndex |-> 0, rowHeight |-> 0, cells |-> <<>>]

NextGrid ==
    \/ (beginImageGrid /\ UNCHANGED <<storeVars, pageVars, storageItem, decode, exporter, calc>>)
    \/ (addImage /\ UNCHANGED <<storeVars, pageVars, storageItem, decode, exporter, calc>>)
    \/ (gridAgain /\ UNCHANGED <<storeVars, pageVars, storageItem, decode, exporter, calc>>)

SpecGrid == InitGrid /\ [][NextGrid]_vars

\* C11: a row of the image grid is never split across pages: a turn of the
\* loop starts a new page only before the first cell of a row is placed, and
\* a cell placed next to earlier cells of its row lands on their page.
C11_RowOnOnePage ==
    [][(grid # noGrid /\ grid.at = "loop" /\ grid'.index = grid.index + 1) =>
          /\ doc'.pages > doc.pages => grid.columnIndex = 0
          /\ grid.columnIndex > 0 => doc'.page = doc.page]_vars

\* ------------------------------------------------- the stored item, as found
\* The item under STORAGE_KEY may come from an older version of the store or
\* from any other writer. Here a value carries its JavaScript type; a key that
\* is missing and a key that holds undefined are the same value, as they are
\* for JSON.stringify. A string stands for its text by a number; a string that
\* reads as a number is of type "numeric" and carries that number.
jsUndefined == [type |-> "undefined"]
jsNull == [type |-> "null"]
jsString(v) == [type |-> "string", value |-> v]
jsNumeric(v) == [type |-> "numeric", value |-> v]
jsNumber(v) == [type |-> "number", value |-> v]
jsArray(items) == [type |-> "array", items |-> items]

\* typeof v === 'string'
isString(v) == v.type \in {"string", "numeric"}
\* Array.isArray(v)
isArray(v) == v.type = "array"
\* v is truthy: the strings of the model are not empty
truthy(v) == v.type \notin {"undefined", "null"}
\* Number(v) for the values a coordinate is stored as; <<>> stands for NaN
Number(v) ==
    IF v.type \in {"number", "numeric"} THEN <<jsNumber(v.value)>> ELSE <<>>

\* the texts of the defaults
untitledLocation == 900
untitledProject == 901

\* What a normalizer leaves: the items pushed so far (one or none for a single
\* entry, under item), the changed flag, and the next id createId has to give.
emptyResult(id) == [items |-> <<>>, changed |-> FALSE, id |-> id]

\* normalized.push(result.item) and changed = changed || result.changed
pushed(acc, result) ==
    [items |-> acc.items \o result.item,
     changed |-> acc.changed \/ result.changed,
     id |-> result.id]

normalizePhoto(entry, fallbackDate, id) ==
    IF ~truthy(entry)
    THEN [item |-> <<>>, changed |-> TRUE, id |-> id]
    ELSE IF isString(entry)
    THEN [item |-> <<[type |-> "object", id |-> jsString(id), dataUrl |-> entry,
                      createdAt |-> fallbackDate, fileName |-> jsUndefined]>>,
          changed |-> TRUE, id |-> id + 1]
    ELSE IF entry.type = "object" /\ isString(entry.dataUrl)
    THEN LET createdAt == IF isString(entry.createdAt) THEN entry.createdAt ELSE fallbackDate
         IN  [item |-> <<[type |-> "object",
                          id |-> IF truthy(entry.id) THEN entry.id ELSE jsString(id),
                          dataUrl |-> entry.dataUrl,
                          createdAt |-> createdAt,
                          fileName |-> IF truthy(entry.fileName) /\ isString(entry.fileName)
                                       THEN entry.fileName ELSE jsUndefined]>>,
              changed |-> ~truthy(entry.id) \/ entry.createdAt # createdAt,
              id |-> IF truthy(entry.id) THEN id ELSE id + 1]
    ELSE [item |-> <<>>, changed |-> TRUE, id |-> id]

\* photos.forEach of normalizeLocation
RECURSIVE normalizePhotos(_, _, _)
normalizePhotos(entries, fallbackDate, acc) ==
    IF entries = <<>> THEN acc
    ELSE normalizePhotos(Tail(entries), fallbackDate,
                         pushed(acc, normalizePhoto(Head(entries), fallbackDate, acc.id)))

normalizeCoords(stored) ==
    IF truthy(stored) /\ stored.type = "object"
    THEN LET lat == Number(stored.lat)
             lng == Number(stored.lng)
         IN  IF lat # <<>> /\ lng # <<>>
             THEN [coords |-> [type |-> "object", lat |-> lat[1], lng |-> lng[1]],
                   changed |-> FALSE]
             ELSE [coords |-> jsNull, changed |-> TRUE]
    ELSE [coords |-> jsNull, changed |-> FALSE]

\* the status normalizeLocation gives a stored location
normalizeStatus(status) ==
    IF status \in {jsString("approved"), jsString("rejected"), jsString("pending")}
    THEN status ELSE jsString("pending")

\* the object normalizeLocation returns and its changed flag
normalizedLocation(location, createdAt, updatedAt, status, photos, coords) ==
    [item |-> <<[type |-> "object",
                 id |-> IF isString(location.id) THEN location.id ELSE jsString(photos.id),
                 name |-> IF isString(location.name) THEN location.name
                          ELSE jsString(untitledLocation),
                 notes |-> IF isString(location.notes) THEN location.notes ELSE jsString(0),
                 status |-> status,
                 photos |-> jsArray(photos.items),
                 coords |-> coords.coords,
                 createdAt |-> createdAt,
                 updatedAt |-> updatedAt]>>,
     changed |-> \/ photos.changed
                 \/ coords.changed
                 \/ ~isString(location.id)
                 \/ ~isString(location.name)
                 \/ ~isString(location.notes)
                 \/ location.status # status
                 \/ ~isString(location.createdAt)
                 \/ ~isString(location.updatedAt),
     id |-> IF isString(location.id) THEN photos.id ELSE photos.id + 1]

normalizeLocation(location, now, id) ==
    IF ~truthy(location) \/ location.type # "object"
    THEN [item |-> <<>>, changed |-> TRUE, id |-> id]
    ELSE LET createdAt == IF isString(location.createdAt) THEN location.createdAt
                          ELSE jsString(now)
             updatedAt == IF isString(location.updatedAt) THEN location.updatedAt
                          ELSE createdAt
         IN  normalizedLocation(
                 location, createdAt, updatedAt,
                 normalizeStatus(location.status),
                 normalizePhotos(IF isArray(location.photos) THEN location.photos.items
                                 ELSE <<>>, updatedAt, emptyResult(id)),
                 normalizeCoords(location.coords))

\* locations.forEach of normalizeProject
RECURSIVE normalizeLocations(_, _, _)
normalizeLocations(items, now, acc) ==
    IF items = <<>> THEN acc
    ELSE normalizeLocations(Tail(items), now,
                            pushed(acc, normalizeLocation(Head(items), now, acc.id)))

\* the object normalizeProject returns and its changed flag
normalizedProject(project, createdAt, updatedAt, locations) ==
    [item |-> <<[type |-> "object",
                 id |-> IF isString(project.id) THEN project.id ELSE jsString(locations.id),
                 name |-> IF isString(project.name) THEN project.name
                          ELSE jsString(untitledProject),
                 createdAt |-> createdAt,
                 updatedAt |-> updatedAt,
                 locations |-> jsArray(locations.items)]>>,
     changed |-> \/ locations.changed
                 \/ ~isString(project.id)
                 \/ ~isString(project.name)
                 \/ ~isString(project.createdAt)
                 \/ ~isString(project.updatedAt),
     id |-> IF isString(project.id) THEN locations.id ELSE locations.id + 1]

normalizeProject(project, now, id) ==
    IF ~truthy(project) \/ project.type # "object"
    THEN [item |-> <<>>, changed |-> TRUE, id |-> id]
    ELSE LET createdAt == IF isString(project.createdAt) THEN project.createdAt
                          ELSE jsString(now)
             updatedAt == IF isString(project.updatedAt) THEN project.updatedAt
                          ELSE createdAt
         IN  normalizedProject(
                 project, createdAt, updatedAt,
                 normalizeLocations(IF isArray(project.locations)
                                    THEN project.locations.items ELSE <<>>,
                                    now, emptyResult(id)))

\* raw.forEach of normalizeProjects
RECURSIVE normalizeItems(_, _, _)
normalizeItems(items, now, acc) ==
    IF items = <<>> THEN acc
    ELSE normalizeItems(Tail(items), now,
                        pushed(acc, normalizeProject(Head(items), now, acc.id)))

normalizeProjects(raw, now, id) ==
    IF ~isArray(raw) THEN [items |-> <<>>, changed |-> TRUE, id |-> id]
    ELSE normalizeItems(raw.items, now, emptyResult(id))

\* JSON.stringify(projects), kept as the value JSON.parse reads back from it
stringify(projects) == [type |-> "json", value |-> jsArray(projects)]

\* what readFromLocalStorage returns, the item it leaves and the next id
written(item, result) ==
    [projects |-> result.items,
     item |-> IF result.changed THEN stringify(result.items) ELSE item,
     id |-> result.id]

\* readFromLocalStorage in a browser; an item that is missing or that
\* JSON.parse throws on gives []
readFromLocalStorage(item, now, id) ==
    IF item.type \in {"missing", "text"}
    THEN [projects |-> <<>>, item |-> item, id |-> id]
    ELSE written(item, normalizeProjects(item.value, now, id))

\* memoryProjects = browserProjects; return memoryProjects
returnedProjects(now, browserProjects) ==
    /\ clock' = now
    /\ memoryProjects' = browserProjects.projects
    /\ storageItem' = browserProjects.item
    /\ nextId' = browserProjects.id
    /\ last' = [op |-> "getProjects", ret |-> "projects"]
    /\ UNCHANGED localStorage

\* getProjects()
loadProjects(now) == returnedProjects(now, readFromLocalStorage(storageItem, now, nextId))

\* persist(projects) with what getProjects returned
savedProjects(now, browserProjects) ==
    /\ clock' = now
    /\ memoryProjects' = browserProjects.projects
    /\ storageItem' = stringify(browserProjects.projects)
    /\ nextId' = browserProjects.id
    /\ last' = [op |-> "saveProjects", ret |-> "none"]
    /\ UNCHANGED localStorage

\* saveProjects(getProjects())
saveLoadedProjects(now) == savedProjects(now, readFromLocalStorage(storageItem, now, nextId))

\* stored coordinates: none, null, two numbers, a latitude kept as a string of
\* digits, a latitude that is no number
coordsObject(lat, lng) == [type |-> "object", lat |-> lat, lng |-> lng]
RawCoords ==
    {jsUndefined, jsNull,
     coordsObject(jsNumber(40), jsNumber(3)),
     coordsObject(jsNumeric(40), jsNumber(3)),
     coordsObject(jsString(7), jsNumber(3))}

\* stored photos: null, a bare data URL, and objects with or without id,
\* createdAt and fileName, the fileName a string or a number
RawPhotos ==
    {jsNull, jsString(DataUrl(1))}
    \cup {[type |-> "object", id |-> id, dataUrl |-> dataUrl, createdAt |-> createdAt,
           fileName |-> fileName] :
             id \in {jsUndefined, jsString(3)},
             dataUrl \in {jsString(DataUrl(1))},
             createdAt \in {jsUndefined, jsString(0)},
             fileName \in {jsUndefined, jsString(5), jsNumber(5)}}
    \cup {[type |-> "object", id |-> jsString(3), dataUrl |-> jsUndefined,
           createdAt |-> jsString(0), fileName |-> jsUndefined]}
RawPhotoLists ==
    {jsUndefined, jsArray(<<>>), jsArray(<<jsString(DataUrl(1)), jsString(DataUrl(2))>>)}
    \cup {jsArray(<<photo>>) : photo \in RawPhotos}

RawLocations ==
    {jsNull}
    \cup {[type |-> "object", id |-> id, name |-> jsString(1), notes |-> jsString(2),
           status |-> status, photos |-> photos, coords |-> coords,
           createdAt |-> createdAt, updatedAt |-> jsString(0)] :
             id \in {jsUndefined, jsString(2)},
             status \in {jsString("approved"), jsString("open")},
             photos \in RawPhotoLists,
             coords \in RawCoords,
             createdAt \in {jsUndefined, jsString(0)}}

RawProjects ==
    {jsNull}
    \cup {[type |-> "object", id |-> id, name |-> jsString(1), createdAt |-> jsString(0),
           updatedAt |-> jsString(0), locations |-> locations] :
             id \in {jsUndefined, jsString(1)},
             locations \in {jsUndefined} \cup {jsArray(<<location>>) : location \in RawLocations}}

\* no item, an item JSON.parse throws on, an item that is no array, arrays
RawItems ==
    {noItem, [type |-> "text"], [type |-> "json", value |-> jsNull],
     [type |-> "json", value |-> jsArray(<<>>)]}
    \cup {[type |-> "json", value |-> jsArray(<<project>>)] : project \in RawProjects}

InitStorage ==
    /\ localStorage = <<>>
    /\ memoryProjects = <<>>
    /\ clock = 0
    /\ nextId = 4
    /\ last = [op |-> "none", ret |-> "none"]
    /\ pdfIdle
    /\ pageIdle
    /\ grid = noGrid
    /\ decode = noDecode
    /\ exporter = noExport
    /\ calc = noCalc
    /\ storageItem \in RawItems

GetProjects == loadProjects(clock)
SaveProjects == saveLoadedProjects(clock)

NextStorage ==
    \/ (GetProjects /\ UNCHANGED <<pdfVars, pageVars, grid, decode, exporter, calc>>)
    \/ (SaveProjects /\ UNCHANGED <<pdfVars, pageVars, grid, decode, exporter, calc>>)

SpecStorage == InitStorage /\ [][NextStorage]_vars

\* C12: once getProjects has returned, saveProjects(getProjects()) leaves the
\* stored item as it is, for every item getProjects reads an array from.
C12_SaveLoadRoundTrip ==
    [][(/\ last.op \in {"getProjects", "saveProjects"}
        /\ last'.op = "saveProjects"
        /\ storageItem.type = "json"
        /\ isArray(storageItem.value)) => storageItem' = storageItem]_vars

\* C13: getProjects returns the empty list for an item that is missing, that
\* does not parse or that is no array; for an array it returns the repaired
\* collection, and whenever that differs from the stored one it has written it
\* back, so that the item holds what was returned.
C13_LoadRepairs ==
    [][last'.op = "getProjects" =>
          IF storageItem.type = "json" /\ isArray(storageItem.value)
          THEN /\ memoryProjects' = normalizeProjects(storageItem.value, clock, nextId).items
               /\ storageItem' = stringify(memoryProjects')
          ELSE memoryProjects' = <<>>]_vars

\* ------------------------------------- the operations and what they report
\* notes within the limit and notes one character above it
OpsNotes == {<<"n", " ">>, Str("x", MAX_NOTES_LENGTH + 1)}
OpsStatus == "approved"
\* setSetCoords(projectId, locationId, null)
OpsCoords == NoCoords
OpsPhoto == [isString |-> FALSE, dataUrl |-> DataUrl(1), createdAt |-> 0, fileName |-> <<"f">>]

OpsSetSetNotes ==
    \E projectId \in ProjectIds, notes \in OpsNotes : \E locationId \in LocationIds(projectId) :
        setSetNotes(projectId, locationId, notes, clock)
OpsSetSetCoords == \E projectId \in ProjectIds : \E locationId \in LocationIds(projectId) :
    setSetCoords(projectId, locationId, OpsCoords, clock)

NextOps ==
    \/ (CreateProject /\ UNCHANGED <<pdfVars, pageVars, sideVars>>)
    \/ (DeleteProject /\ UNCHANGED <<pdfVars, pageVars, sideVars>>)
    \/ (UpdateProjectName /\ UNCHANGED <<pdfVars, pageVars, sideVars>>)
    \/ (CreateLocation /\ UNCHANGED <<pdfVars, pageVars, sideVars>>)
    \/ (DeleteLocation /\ UNCHANGED <<pdfVars, pageVars, sideVars>>)
    \/ (SetSetStatus /\ UNCHANGED <<pdfVars, pageVars, sideVars>>)
    \/ (OpsSetSetNotes /\ UNCHANGED <<pdfVars, pageVars, sideVars>>)
    \/ (OpsSetSetCoords /\ UNCHANGED <<pdfVars, pageVars, sideVars>>)
    \/ (AddSetPhoto /\ UNCHANGED <<pdfVars, pageVars, sideVars>>)
    \/ (RemoveSetPhoto /\ UNCHANGED <<pdfVars, pageVars, sideVars>>)

SpecOps == Init /\ [][NextOps]_vars

absentProject(projectId) == find(localStorage, projectId) = <<>>
absentLocation(projectId, locationId) ==
    \/ absentProject(projectId)
    \/ find(find(localStorage, projectId)[1].locations, locationId) = <<>>
absentPhoto(projectId, locationId, identifier) ==
    \/ absentLocation(projectId, locationId)
    \/ LET location == find(find(localStorage, projectId)[1].locations, locationId)[1]
       IN  \A i \in 1..Len(location.photos) :
               /\ location.photos[i].id # identifier
               /\ location.photos[i].dataUrl # identifier

\* the step is an operation that returns a project or undefined, addressed to
\* an id the collection does not hold
lookupFails ==
    \/ \E id \in ProjectIds, name \in NameInputs :
           absentProject(id) /\ updateProjectName(id, name, clock)
    \/ \E projectId \in ProjectIds : \E locationId \in LocationIds(projectId) :
           /\ absentLocation(projectId, locationId)
           /\ \/ deleteLocation(projectId, locationId, clock)
              \/ setSetStatus(projectId, locationId, OpsStatus, clock)
              \/ \E notes \in OpsNotes : Len(trim(notes)) <= MAX_NOTES_LENGTH
                                         /\ setSetNotes(projectId, locationId, notes, clock)
              \/ setSetCoords(projectId, locationId, OpsCoords, clock)
              \/ addSetPhoto(projectId, locationId, OpsPhoto, clock)
    \/ \E projectId \in ProjectIds : \E locationId \in LocationIds(projectId) :
           \E identifier \in PhotoIds(projectId, locationId) \cup {DataUrl(1)} :
               /\ absentPhoto(projectId, locationId, identifier)
               /\ removeSetPhoto(projectId, locationId, identifier, clock)

\* C14: an operation addressed to an absent project, location or photo id
\* leaves the stored collection as it was and returns undefined, the signal of
\* a failed lookup, which is neither a project nor an error thrown;
\* deleteProject of an absent id leaves the collection as it was.
C14_AbsentIdIsFailedLookup ==
    [][/\ lookupFails => /\ localStorage' = localStorage
                         /\ last'.ret = "undefined"
       /\ (\E id \in ProjectIds : absentProject(id) /\ deleteProject(id, clock)) =>
              localStorage' = localStorage]_vars

\* what an operation reports when it refuses or finds nothing
FailureReports ==
    {"DUPLICATE_PROJECT_NAME", "DUPLICATE_LOCATION_NAME", "NOTES_TOO_LONG", "undefined",
     "ADD_SET_PHOTO_FAILED"}

\* C15: an operation that reports DuplicateName, NotesTooLong or a failed
\* lookup leaves every project, location and photo in storage as it was, and
\* after every operation the item in storage is the whole collection the
\* operation worked out, the one the module keeps in memory.
C15_AllOrNothing ==
    /\ [](memoryProjects = localStorage)
    /\ [][last'.ret \in FailureReports => localStorage' = localStorage]_vars

\* notes above the limit were refused for a location that holds notes and a photo
C15_Witness ==
    /\ last = [op |-> "setSetNotes", ret |-> "NOTES_TOO_LONG"]
    /\ \E i \in 1..Len(localStorage) : \E j \in 1..Len(localStorage[i].locations) :
           /\ localStorage[i].locations[j].notes # <<>>
           /\ localStorage[i].locations[j].photos # <<>>

\* the step is createProject, createLocation or updateProjectName with a name
\* that is empty once trimmed
blankNameGiven ==
    \E name \in NameInputs :
        /\ trim(name) = <<>>
        /\ \/ createProject(name, clock)
           \/ \E id \in ProjectIds : \/ updateProjectName(id, name, clock)
                                     \/ createLocation(id, name, clock)

\* C16: createProject, createLocation and updateProjectName called with an
\* empty or blank name end in an error, not in a return value, and leave the
\* stored collection as it was.
C16_EmptyNameSignalled ==
    [][blankNameGiven => /\ last'.ret \notin {"project", "undefined"}
                         /\ localStorage' = localStorage]_vars

\* ------------------------------------------------------ a batch of pictures
\* C17: the files of a batch are taken one at a time in the order given; a
\* file that fails to decode or is a duplicate does not end the batch while
\* the location has free slots; no file is added once the location holds
\* MAX_PHOTOS photos, and a batch that ends with files left over reports that
\* the limit was reached.
C17_BatchInOrderUntilFull ==
    [][(upload # noUpload /\ upload' # upload) =>
          LET rest == Tail(upload[1].files)
          IN  /\ upload' # noUpload => upload'[1].files = rest
              /\ Len(storedPhotos') > Len(storedPhotos) => Len(storedPhotos) < MAX_PHOTOS
              /\ (rest # <<>> /\ last'.ret # "project" /\ Len(storedPhotos') < MAX_PHOTOS) =>
                     upload' # noUpload
              /\ (rest # <<>> /\ upload' = noUpload) => toast'.limitReached]_vars

\* C19: while a batch is in progress, from handlePhotoSelection to the end of
\* its loop, the page begins no other mutation of the stored collection: no
\* handler of the page removes a photo between two files of the batch.
C19_OneMutationInFlight ==
    [][upload # noUpload =>
          ~(\E photoId \in shownPhotoIds : handleRemovePhoto(photoId, clock))]_vars

\* ----------------------------------------------- the handles of preparePhoto
MaxCalls == 3

\* A file as the browser takes it: whether createImageBitmap decodes it,
\* whether an <img> loads it, the size the decoder reports, and whether the
\* canvas gives a 2d context for that size. A bitmap is never empty; an image
\* element may report no natural size.
DecodeFiles ==
    {file \in [bitmap : BOOLEAN, loads : BOOLEAN, width : {0, 3000}, height : {0, 2000},
               context : BOOLEAN] :
        file.bitmap => (file.width > 0 /\ file.height > 0)}

\* preparePhoto down to its first await: createImageBitmap(file).catch(() => null)
createBitmap(file) ==
    /\ decode.at \in {"idle", "returned", "thrown"}
    /\ decode.calls < MaxCalls
    /\ decode' = [at |-> IF file.bitmap THEN "decoded" ELSE "loading",
                  file |-> file,
                  error |-> "none",
                  held |-> decode.held \cup
                             (IF file.bitmap THEN {<<"bitmap", decode.calls + 1>>}
                              ELSE {<<"objectUrl", decode.calls + 1>>}),
                  calls |-> decode.calls + 1]

\* image.onload or image.onerror; onerror revokes the object URL and rejects
loadImage ==
    /\ decode.at = "loading"
    /\ IF decode.file.loads
       THEN decode' = [decode EXCEPT !.at = "decoded"]
       ELSE decode' = [decode EXCEPT !.at = "thrown",
                                     !.error = "IMAGE_LOAD_ERROR",
                                     !.held = @ \ {<<"objectUrl", decode.calls>>}]

\* the rest of preparePhoto: the size, the canvas, the drawing, the encoding
encodePhoto ==
    /\ decode.at = "decoded"
    /\ LET file == decode.file
       IN  IF file.width = 0 \/ file.height = 0
           THEN decode' = [decode EXCEPT !.at = "thrown", !.error = "INVALID_IMAGE_DIMENSIONS"]
           ELSE IF ~file.context
           THEN decode' = [decode EXCEPT !.at = "thrown", !.error = "CANVAS_CONTEXT_UNAVAILABLE"]
           ELSE decode' = [decode EXCEPT
                              !.at = "returned",
                              !.held = @ \ {<<"bitmap", decode.calls>>,
                                            <<"objectUrl", decode.calls>>}]

InitDecode ==
    /\ localStorage = <<>>
    /\ memoryProjects = <<>>
    /\ clock = 0
    /\ nextId = 1
    /\ last = [op |-> "none", ret |-> "none"]
    /\ pdfIdle
    /\ pageIdle
    /\ grid = noGrid
    /\ storageItem = noItem
    /\ exporter = noExport
    /\ calc = noCalc
    /\ decode = noDecode

CreateBitmap == \E file \in DecodeFiles : createBitmap(file)

NextDecode ==
    \/ (CreateBitmap /\ UNCHANGED <<storeVars, pdfVars, pageVars, grid, storageItem, exporter, calc>>)
    \/ (loadImage /\ UNCHANGED <<storeVars, pdfVars, pageVars, grid, storageItem, exporter, calc>>)
    \/ (encodePhoto /\ UNCHANGED <<storeVars, pdfVars, pageVars, grid, storageItem, exporter, calc>>)

SpecDecode == InitDecode /\ [][NextDecode]_vars

\* C18: when preparePhoto has returned or thrown, it holds no handle: the
\* object URL it created and the bitmap it decoded have been released.
C18_HandlesReleased ==
    decode.at \in {"returned", "thrown"} => decode.held = {}

\* ------------------------------------------------- the export and its toasts
MaxRequests == 2
MaxExportLocations == 3

ExportProjects == {project \in ReportProjects : Len(project) <= MaxExportLocations}

\* handleExportPdf down to its await: the flag, the first toast, and
\* exportProjectPdf down to its first loop
handleExportPdf ==
    /\ exporter.at = "idle"
    /\ ~exporter.isExporting
    /\ exporter.requests < MaxRequests
    /\ beginExport
    /\ exporter' = [exporter EXCEPT !.at = "awaiting",
                                    !.isExporting = TRUE,
                                    !.toasts = Append(@, "info"),
                                    !.requests = @ + 1]

\* doc.save: the file is handed to the browser
exportSaves ==
    /\ exporter.at = "awaiting"
    /\ savePdf
    /\ exporter' = [exporter EXCEPT !.saved = @ + 1]

\* the success toast shown while doc.save is still to come
exportResolves_beforeSave ==
    /\ exporter.at = "awaiting"
    /\ pc = "save"
    /\ pc' = "idle"
    /\ exporter' = [exporter EXCEPT !.at = "idle",
                                    !.isExporting = FALSE,
                                    !.toasts = Append(@, "success")]
    /\ UNCHANGED <<reportProject, indexTurn, doc, indexPages, summaries, startPages, printed,
                   entryIndex, render, firstPrinted>>

\* the await returns: the success toast, then finally
exportResolves ==
    /\ exporter.at = "awaiting"
    /\ pc = "saved"
    /\ pc' = "idle"
    /\ exporter' = [exporter EXCEPT !.at = "idle",
                                    !.isExporting = FALSE,
                                    !.toasts = Append(@, "success")]
    /\ UNCHANGED <<reportProject, indexTurn, doc, indexPages, summaries, startPages, printed,
                   entryIndex, render, firstPrinted>>

\* the import, the rendering or doc.save throws: catch, then finally
exportRejects ==
    /\ exporter.at = "awaiting"
    /\ pc \in {"allocate", "detail", "index", "save"}
    /\ pc' = "idle"
    /\ exporter' = [exporter EXCEPT !.at = "idle",
                                    !.isExporting = FALSE,
                                    !.toasts = Append(@, "error")]
    /\ UNCHANGED <<reportProject, indexTurn, doc, indexPages, summaries, startPages, printed,
                   entryIndex, render, firstPrinted>>

InitExport ==
    /\ localStorage = <<>>
    /\ memoryProjects = <<>>
    /\ clock = 0
    /\ nextId = 1
    /\ last = [op |-> "none", ret |-> "none"]
    /\ pageIdle
    /\ sideIdle
    /\ reportProject \in ExportProjects
    /\ pc = "idle"
    /\ indexTurn = 0
    /\ doc = newDoc
    /\ indexPages = <<>>
    /\ summaries = <<>>
    /\ startPages = <<>>
    /\ printed = <<>>
    /\ entryIndex = 1
    /\ render = 1
    /\ firstPrinted = <<>>

NextExport ==
    \/ (handleExportPdf /\ UNCHANGED <<storeVars, pageVars, grid, storageItem, decode, calc>>)
    \/ (allocateIndexPage /\ UNCHANGED <<storeVars, pageVars, sideVars>>)
    \/ (renderLocation /\ UNCHANGED <<storeVars, pageVars, sideVars>>)
    \/ (fillIndexPage /\ UNCHANGED <<storeVars, pageVars, sideVars>>)
    \/ (exportSaves /\ UNCHANGED <<storeVars, pageVars, grid, storageItem, decode, calc>>)
    \/ (exportResolves /\ UNCHANGED <<storeVars, pageVars, grid, storageItem, decode, calc>>)
    \/ (exportRejects /\ UNCHANGED <<storeVars, pageVars, grid, storageItem, decode, calc>>)

SpecExport == InitExport /\ [][NextExport]_vars

toastCount(kinds) ==
    Cardinality({i \in 1..Len(exporter.toasts) : exporter.toasts[i] \in kinds})

\* C20: every export request that has ended has shown exactly one terminal
\* toast, success or error, and has cleared the exporting flag; a request
\* under way has shown none; the success toasts are as many as the files
\* saved, so that success follows doc.save and no file goes with an error.
C20_OneTerminalToast ==
    /\ exporter.at = "idle" =>
           /\ toastCount({"success", "error"}) = exporter.requests
           /\ toastCount({"success"}) = exporter.saved
           /\ ~exporter.isExporting
    /\ exporter.at = "awaiting" =>
           /\ toastCount({"success", "error"}) = exporter.requests - 1
           /\ toastCount({"success"}) = exporter.saved - (IF pc = "saved" THEN 1 ELSE 0)
           /\ exporter.isExporting

\* one export has failed while the locations were rendered and the next has
\* saved its file and shown its success toast
C20_Witness ==
    /\ exporter.at = "idle"
    /\ exporter.toasts = <<"info", "error", "info", "success">>
    /\ exporter.saved = 1
    /\ Len(reportProject) = MaxExportLocations

\* ------------------------------------------------ the decoding of a picked file
\* everything but calc as it is before the page is used
calcIdle ==
    /\ localStorage = <<>>
    /\ memoryProjects = <<>>
    /\ clock = 0
    /\ nextId = 1
    /\ last = [op |-> "none", ret |-> "none"]
    /\ pdfIdle
    /\ pageIdle
    /\ grid = noGrid
    /\ storageItem = noItem
    /\ decode = noDecode
    /\ exporter = noExport

calcFrame == <<storeVars, pdfVars, pageVars, grid, storageItem, decode, exporter>>

NormalizedImageTypes == {"png", "jpeg", "heic"}

\* a picked file as the browser takes it: createImageBitmap resolves or
\* rejects, the FileReader loads or fails, the image element loads or fails
ResourceFiles == [bitmap : BOOLEAN, reads : BOOLEAN, loads : BOOLEAN]

\* loadImageResource(file, type) before its first statement; api is
\* typeof createImageBitmap === 'function'
ResourceCalls ==
    [fn : {"loadImageResource"}, at : {"start"}, type : NormalizedImageTypes, api : BOOLEAN,
     file : ResourceFiles, tried : {<<>>}, error : {"none"}]

\* the first block of loadImageResource: createImageBitmap, and its catch
tryCreateImageBitmap ==
    /\ calc.fn = "loadImageResource"
    /\ calc.at = "start"
    /\ IF ~calc.api
       THEN calc' = [calc EXCEPT !.at = "fallback"]
       ELSE IF calc.file.bitmap
       THEN calc' = [calc EXCEPT !.at = "returned", !.tried = Append(@, "createImageBitmap")]
       ELSE IF calc.type = "heic"
       THEN calc' = [calc EXCEPT !.at = "thrown", !.tried = Append(@, "createImageBitmap"),
                                 !.error = "HEIC_NOT_SUPPORTED"]
       ELSE calc' = [calc EXCEPT !.at = "fallback", !.tried = Append(@, "createImageBitmap")]

\* the second block: readFileAsDataUrl, loadImageElement, and its catch
tryImageElement ==
    /\ calc.fn = "loadImageResource"
    /\ calc.at = "fallback"
    /\ IF calc.file.reads /\ calc.file.loads
       THEN calc' = [calc EXCEPT !.at = "returned", !.tried = Append(@, "imageElement")]
       ELSE calc' = [calc EXCEPT !.at = "thrown", !.tried = Append(@, "imageElement"),
                                 !.error = IF calc.type = "heic" THEN "HEIC_NOT_SUPPORTED"
                                           ELSE IF calc.file.reads THEN "IMAGE_LOAD_ERROR"
                                           ELSE "READ_ERROR"]

InitResource ==
    /\ calcIdle
    /\ calc \in ResourceCalls

NextResource ==
    \/ (tryCreateImageBitmap /\ UNCHANGED calcFrame)
    \/ (tryImageElement /\ UNCHANGED calcFrame)

SpecResource == InitResource /\ [][NextResource]_vars

\* the file can be decoded by neither path
bothPathsFail(c) == ~c.file.bitmap /\ ~(c.file.reads /\ c.file.loads)

\* C21: where createImageBitmap exists, loadImageResource tries it first and,
\* when it fails, tries the image element; it ends with HEIC_NOT_SUPPORTED
\* exactly for a heic file that neither path decodes, and a file of another
\* type that neither path decodes ends with another error.
C21_DecodeChain ==
    (calc.fn = "loadImageResource" /\ calc.api /\ calc.at \in {"returned", "thrown"}) =>
        /\ calc.tried[1] = "createImageBitmap"
        /\ ~calc.file.bitmap => calc.tried = <<"createImageBitmap", "imageElement">>
        /\ calc.type = "heic" => (calc.error = "HEIC_NOT_SUPPORTED" <=> bothPathsFail(calc))
        /\ (calc.type # "heic" /\ bothPathsFail(calc)) =>
               calc.error \in {"IMAGE_LOAD_ERROR", "READ_ERROR"}

\* ------------------------------------------------------ the size of the canvas
MaxSmallSide == 4

MAX_SIZE == 2560
MAX_IMAGE_DIMENSION == 1600

\* Math.round(numerator / denominator) for a quotient that is not negative
Round(numerator, denominator) == (2 * numerator + denominator) \div (2 * denominator)

\* Math.round(side * scale), scale = Math.min(1, maxSize / Math.max(width, height))
scaled(side, longest, maxSize) ==
    IF longest <= maxSize THEN side ELSE Round(side * maxSize, longest)

\* preparePhoto: Math.round(width * scale) || width
preparePhotoSide(side, longest) ==
    LET rounded == scaled(side, longest, MAX_SIZE)
    IN  IF rounded = 0 THEN side ELSE rounded

\* convertFileToJpegDataUrl: Math.max(1, Math.round(width * scale))
convertFileSide(side, longest) == Max(1, scaled(side, longest, MAX_IMAGE_DIMENSION))

\* the sides of the pictures that are decoded: thin ones, ones at and about
\* the two maxima, camera sizes, a long strip
SourceSides == (1..MaxSmallSide) \cup {1200, 1599, 1600, 1601, 2560, 2561, 3000, 4000, 20000}

SizeCalls ==
    [fn : {"preparePhoto", "convertFileToJpegDataUrl"}, at : {"decoded"},
     width : SourceSides, height : SourceSides, targetWidth : {0}, targetHeight : {0}]

\* preparePhoto from the size it has read to canvas.width and canvas.height
preparePhotoSize ==
    /\ calc.fn = "preparePhoto"
    /\ calc.at = "decoded"
    /\ LET longest == Max(calc.width, calc.height)
       IN  calc' = [calc EXCEPT !.at = "sized",
                                !.targetWidth = preparePhotoSide(calc.width, longest),
                                !.targetHeight = preparePhotoSide(calc.height, longest)]

\* convertFileToJpegDataUrl from the size of the resource to the canvas size
convertFileSize ==
    /\ calc.fn = "convertFileToJpegDataUrl"
    /\ calc.at = "decoded"
    /\ LET maxSide == Max(calc.width, calc.height)
       IN  calc' = [calc EXCEPT !.at = "sized",
                                !.targetWidth = convertFileSide(calc.width, maxSide),
                                !.targetHeight = convertFileSide(calc.height, maxSide)]

InitSize ==
    /\ calcIdle
    /\ calc \in SizeCalls

NextSize ==
    \/ (preparePhotoSize /\ UNCHANGED calcFrame)
    \/ (convertFileSize /\ UNCHANGED calcFrame)

SpecSize == InitSize /\ [][NextSize]_vars

maxSizeOf(c) == IF c.fn = "preparePhoto" THEN MAX_SIZE ELSE MAX_IMAGE_DIMENSION

\* target is less than one pixel away from side * scale
withinRounding(target, side, longest, maxSize) ==
    LET exact == side * (IF longest <= maxSize THEN longest ELSE maxSize)
        got == target * longest
    IN  got - exact < longest /\ exact - got < longest

\* C22: the canvas is no longer than the maximum on its longer side, no
\* larger than the source on either side, at least one pixel on both, and
\* each side is the scaled source side within rounding; 4000 x 3000 gives
\* 1600 x 1200, and 2560 x 1920 in preparePhoto.
C22_TargetSize ==
    (calc.fn \in {"preparePhoto", "convertFileToJpegDataUrl"} /\ calc.at = "sized") =>
        LET longest == Max(calc.width, calc.height)
        IN  /\ Max(calc.targetWidth, calc.targetHeight) <= maxSizeOf(calc)
            /\ calc.targetWidth <= calc.width
            /\ calc.targetHeight <= calc.height
            /\ calc.targetWidth >= 1
            /\ calc.targetHeight >= 1
            /\ withinRounding(calc.targetWidth, calc.width, longest, maxSizeOf(calc))
            /\ withinRounding(calc.targetHeight, calc.height, longest, maxSizeOf(calc))
            /\ (calc.width = 4000 /\ calc.height = 3000) =>
                   <<calc.targetWidth, calc.targetHeight>> =
                       (IF calc.fn = "preparePhoto" THEN <<2560, 1920>> ELSE <<1600, 1200>>)

\* ------------------------------------------------------------- coordinates
\* In this part a coordinate is a whole number of 0.0000001 degrees, so that
\* a position of seven decimals can be told from one of six.
\* parseFloat(value.toFixed(6)): the nearest multiple of 0.000001, a half
\* going away from zero
toFixed6(value) ==
    LET magnitude == IF value < 0 THEN 0 - value ELSE value
        rounded == ((magnitude + 5) \div 10) * 10
    IN  IF value < 0 THEN 0 - rounded ELSE rounded

\* positions of seven decimals, of six, and one on a half
Positions ==
    [lat : {404168123, 404168120, 404168125}, lng : {0 - 37038123, 0 - 37038120}]

\* the success callback of getCurrentPosition in handleUseMyLocation
handleUseMyLocation(position, now) ==
    /\ pageLocation # <<>>
    /\ setSetCoords(routeId, pageLocation[1].id,
                    <<[lat |-> toFixed6(position.lat), lng |-> toFixed6(position.lng)]>>, now)
    /\ refreshLocation
    /\ toast' = [kind |-> IF last'.ret = "project" /\ pageLocation' # <<>> THEN "success"
                          ELSE IF last'.ret = "project" THEN "none"
                          ELSE "error"]
    /\ UNCHANGED upload

\* the error callback: a toast and nothing stored
handleUseMyLocationError ==
    /\ pageLocation # <<>>
    /\ toast' = [kind |-> "error"]
    /\ UNCHANGED <<storeVars, pageLocation, upload>>

HandleUseMyLocation == \E position \in Positions, now \in Times :
    handleUseMyLocation(position, now)
\* setSetCoords as the store exports it, called with a position or with null
CoordsSetSetCoords == \E position \in Positions, now \in Times :
    \/ setSetCoords(routeId, routeSetId, <<position>>, now)
    \/ setSetCoords(routeId, routeSetId, NoCoords, now)
CoordsLoadPage == loadPage

NextCoords ==
    \/ (HandleUseMyLocation /\ UNCHANGED <<pdfVars, sideVars>>)
    \/ (handleUseMyLocationError /\ UNCHANGED <<pdfVars, sideVars>>)
    \/ (CoordsSetSetCoords /\ UNCHANGED <<pdfVars, pageVars, sideVars>>)
    \/ (CoordsLoadPage /\ UNCHANGED <<pdfVars, sideVars>>)

SpecCoords == InitNotes /\ [][NextCoords]_vars

storedCoords == routeLocation(localStorage)[1].coords

\* C23: the coordinates a location is stored with have six decimals: each is
\* the value it was set from rounded to 0.000001, so that (40.4168123,
\* -3.7038123) is stored as (40.416812, -3.703812) by every operation.
C23_SixDecimals ==
    storedCoords # NoCoords =>
        /\ storedCoords[1].lat = toFixed6(storedCoords[1].lat)
        /\ storedCoords[1].lng = toFixed6(storedCoords[1].lng)

\* ------------------------------------------------------- the status and its label
\* STATUS_LABELS, an object literal: its own keys
STATUS_LABELS ==
    [pending |-> "Pendiente", approved |-> "Apta", rejected |-> "No apta"]

\* keys every object literal answers through Object.prototype
ObjectPrototypeKeys ==
    {"constructor", "toString", "valueOf", "hasOwnProperty", "__proto__"}

\* STATUS_LABELS[location.status] ?? STATUS_LABELS.pending: the key is the
\* status as a string; a key found on the prototype gives a value that is
\* neither null nor undefined, so that ?? keeps it
statusLabel(status) ==
    IF isString(status) /\ status.value \in DOMAIN STATUS_LABELS
    THEN STATUS_LABELS[status.value]
    ELSE IF isString(status) /\ status.value \in ObjectPrototypeKeys
    THEN "inherited"
    ELSE STATUS_LABELS.pending

\* statuses as a writer may leave them: the three, others, none
StoredStatuses ==
    {jsString(status) : status \in {"pending", "approved", "rejected", "open", "",
                                    "constructor", "toString", "__proto__"}}
    \cup {jsUndefined, jsNull}

\* a location's status on its way to a report: stored by setSetStatus and
\* held by the page from its return value, or loaded by getProjects; then
\* labelled by renderLocationInformation or by exportProjectPdf
StatusCalls ==
    [fn : {"statusLabel"}, at : {"stored"}, stored : StoredStatuses,
     via : {"setSetStatus", "getProjects"},
     site : {"renderLocationInformation", "exportProjectPdf"},
     status : {jsUndefined}, label : {"none"}]

\* the page takes the location from the store
holdStatus ==
    /\ calc.fn = "statusLabel"
    /\ calc.at = "stored"
    /\ calc' = [calc EXCEPT !.at = "held",
                            !.status = IF calc.via = "getProjects"
                                       THEN normalizeStatus(calc.stored)
                                       ELSE calc.stored]

\* const statusLabel = STATUS_LABELS[location.status] ?? STATUS_LABELS.pending
labelStatus ==
    /\ calc.fn = "statusLabel"
    /\ calc.at = "held"
    /\ calc' = [calc EXCEPT !.at = "labelled", !.label = statusLabel(calc.status)]

InitStatus ==
    /\ calcIdle
    /\ calc \in StatusCalls

NextStatus ==
    \/ (holdStatus /\ UNCHANGED calcFrame)
    \/ (labelStatus /\ UNCHANGED calcFrame)

SpecStatus == InitStatus /\ [][NextStatus]_vars

\* C24: a status is labelled Pendiente, Apta or No apta: approved and
\* rejected by their own labels, pending and every other value by the
\* pending label; and a location loaded from the store has one of the three
\* statuses, pending when the stored one is none of them.
C24_StatusLabelTotal ==
    /\ (calc.fn = "statusLabel" /\ calc.at = "labelled") =>
           calc.label = (IF calc.status = jsString("approved") THEN "Apta"
                         ELSE IF calc.status = jsString("rejected") THEN "No apta"
                         ELSE "Pendiente")
    /\ (calc.fn = "statusLabel" /\ calc.at \in {"held", "labelled"}
            /\ calc.via = "getProjects") =>
           calc.status = (IF calc.stored \in {jsString("approved"), jsString("rejected")}
                          THEN calc.stored ELSE jsString("pending"))

\* ------------------------------------------------------ the removal of a project
\* the ids of the project's locations and of their photos
childIds(project) ==
    {project.locations[j].id : j \in 1..Len(project.locations)}
    \cup UNION {{project.locations[j].photos[k].id : k \in 1..Len(project.locations[j].photos)} :
                j \in 1..Len(project.locations)}

\* C25: deleteProject(id) takes the project of that id out of the stored
\* collection with its locations and their photos; every other project stays
\* as it was, the others keep their order, and findProject(id) finds nothing.
C25_DeleteProjectExact ==
    [][\A id \in ProjectIds :
          deleteProject(id, clock) =>
              /\ find(localStorage', id) = <<>>
              /\ \A i \in 1..Len(localStorage) :
                     IF localStorage[i].id = id
                     THEN \A k \in 1..Len(localStorage') :
                              childIds(localStorage[i]) \cap childIds(localStorage'[k]) = {}
                     ELSE /\ findIndex(localStorage', localStorage[i].id) > 0
                          /\ localStorage'[findIndex(localStorage', localStorage[i].id)]
                                 = localStorage[i]
              /\ \A i, j \in 1..Len(localStorage) :
                     (i < j /\ localStorage[i].id # id /\ localStorage[j].id # id) =>
                         findIndex(localStorage', localStorage[i].id)
                             < findIndex(localStorage', localStorage[j].id)
              /\ Len(localStorage') =
                     Len(localStorage) - (IF find(localStorage, id) = <<>> THEN 0 ELSE 1)]_vars

\* the second of two projects has been deleted and the first is left with
\* its location
C25_Witness ==
    /\ last.op = "deleteProject"
    /\ nextId = 4
    /\ Len(localStorage) = 1
    /\ localStorage[1].id = 1
    /\ Len(localStorage[1].locations) = 1

\* ------------------------------------------------- the blocks of the detail section
MaxValueLines == 40

paragraphLineHeight == 1400
keyValueMarginBottom == 1000
headerMarginBottom == 1400

\* where renderLocationInformation starts: below the title block of
\* exportLocationPdf and below the heading of a detail page of exportProjectPdf
sheetStartY == marginTop + 3800 + 2800 + 1800 + 3200
reportStartY == marginTop + 2800 + 1600 + 1600 + 2000

\* addSectionHeader: the cursor it returns for a subtitle of that many lines
addSectionHeader(y, subtitleLines) ==
    LET lineY == y + 600
        cursorY == lineY + 1200
    IN  (IF subtitleLines > 0 THEN cursorY + subtitleLines * 1400 + 400 ELSE cursorY)
            + headerMarginBottom

\* addKeyValue: the cursor it returns for a value of that many lines
addKeyValue(y, lines) == y + Max(1, lines) * paragraphLineHeight + keyValueMarginBottom

\* the lines the value of the ID row wraps into: an id of createId on one,
\* a stored id of any length on more
IdLineCounts == {1, 2, MaxValueLines}
\* the lines writeParagraph cuts the notes into: few, and more than a page has left
NoteLineCounts == {1, MaxNoteLines, MaxNoteLines + 10}

DetailCalls ==
    [fn : {"renderLocationInformation"}, at : {"start"},
     cursorY : {sheetStartY, reportStartY}, doc : {newDoc},
     idLines : IdLineCounts, noteLines : NoteLineCounts, images : ImageLists \cup {<<>>},
     index : {1}, columnIndex : {0}, rowHeight : {0},
     block : {[kind |-> "none", top |-> 0, bottom |-> 0]}]

\* ensureSpace and addSectionHeader as renderLocationInformation pairs them
sectionHeader(required, subtitleLines, next) ==
    LET space == ensureSpace(calc.doc, calc.cursorY, required)
        cursorY == addSectionHeader(space.y, subtitleLines)
    IN  calc' = [calc EXCEPT !.at = next, !.doc = space.doc, !.cursorY = cursorY, !.index = 1,
                             !.block = [kind |-> "header", top |-> space.y,
                                        bottom |-> cursorY - headerMarginBottom]]

\* 'Ficha rápida'
quickSheetHeader ==
    /\ calc.fn = "renderLocationInformation"
    /\ calc.at = "start"
    /\ sectionHeader(6000, 0, "rows")

\* the rows ID, Estado, Última actualización, Coordenadas: addKeyValue writes
\* at the cursor it is given
keyValueRow ==
    /\ calc.fn = "renderLocationInformation"
    /\ calc.at = "rows"
    /\ LET lines == IF calc.index = 1 THEN calc.idLines ELSE 1
           cursorY == addKeyValue(calc.cursorY, lines)
       IN  calc' = [calc EXCEPT !.at = IF calc.index = 4 THEN "notesHeader" ELSE "rows",
                                !.index = @ + 1,
                                !.cursorY = cursorY,
                                !.block = [kind |-> "keyValue", top |-> calc.cursorY,
                                           bottom |-> cursorY - keyValueMarginBottom]]

\* 'Notas y observaciones' with its subtitle
notesHeader ==
    /\ calc.fn = "renderLocationInformation"
    /\ calc.at = "notesHeader"
    /\ sectionHeader(6000, 1, "notes")

\* one line of writeParagraph; after the last one cursorY += 8
paragraphLine ==
    /\ calc.fn = "renderLocationInformation"
    /\ calc.at = "notes"
    /\ LET space == ensureSpace(calc.doc, calc.cursorY, paragraphLineHeight)
           last_ == calc.index = calc.noteLines
       IN  calc' = [calc EXCEPT
                       !.at = IF ~last_ THEN "notes"
                              ELSE IF calc.images = <<>> THEN "noPhotos" ELSE "galleryHeader",
                       !.index = @ + 1,
                       !.doc = space.doc,
                       !.cursorY = space.y + paragraphLineHeight + (IF last_ THEN 800 ELSE 0),
                       !.block = [kind |-> "paragraph", top |-> space.y,
                                  bottom |-> space.y + paragraphLineHeight]]

\* 'Galería fotográfica' with its subtitle
galleryHeader ==
    /\ calc.fn = "renderLocationInformation"
    /\ calc.at = "galleryHeader"
    /\ sectionHeader(8000, 1, "grid")

\* one turn of the loop of addImageGrid
imageCell ==
    /\ calc.fn = "renderLocationInformation"
    /\ calc.at = "grid"
    /\ LET props == calc.images[calc.index]
           space == ensureSpace(calc.doc, calc.cursorY, requiredHeight(props))
           overflows == space.doc # calc.doc
           columnIndex == IF overflows THEN 0 ELSE calc.columnIndex
           rowHeight == Max(IF overflows THEN 0 ELSE calc.rowHeight, requiredHeight(props))
           rowEnds == columnIndex + 1 = columns \/ calc.index = Len(calc.images)
       IN  calc' = [calc EXCEPT
                       !.at = IF calc.index = Len(calc.images) THEN "done" ELSE "grid",
                       !.index = @ + 1,
                       !.doc = space.doc,
                       !.cursorY = IF rowEnds THEN space.y + rowHeight + gap ELSE space.y,
                       !.columnIndex = IF rowEnds THEN 0 ELSE columnIndex + 1,
                       !.rowHeight = IF rowEnds THEN 0 ELSE rowHeight,
                       !.block = [kind |-> "image", top |-> space.y,
                                  bottom |-> space.y + requiredHeight(props)]]

\* 'No hay fotos registradas para esta localización.'
noPhotosLine ==
    /\ calc.fn = "renderLocationInformation"
    /\ calc.at = "noPhotos"
    /\ LET space == ensureSpace(calc.doc, calc.cursorY, 2400)
       IN  calc' = [calc EXCEPT !.at = "done", !.doc = space.doc,
                                !.cursorY = space.y + 1400,
                                !.block = [kind |-> "paragraph", top |-> space.y,
                                           bottom |-> space.y + 1400]]

InitDetail ==
    /\ calcIdle
    /\ calc \in DetailCalls

NextDetail ==
    \/ (quickSheetHeader /\ UNCHANGED calcFrame)
    \/ (keyValueRow /\ UNCHANGED calcFrame)
    \/ (notesHeader /\ UNCHANGED calcFrame)
    \/ (paragraphLine /\ UNCHANGED calcFrame)
    \/ (galleryHeader /\ UNCHANGED calcFrame)
    \/ (imageCell /\ UNCHANGED calcFrame)
    \/ (noPhotosLine /\ UNCHANGED calcFrame)

SpecDetail == InitDetail /\ [][NextDetail]_vars

\* C26: every block the detail section writes, a header with its subtitle, a
\* key/value row with all the lines of its value, a line of a paragraph, an
\* image with its caption, ends at or above pageHeight - marginBottom.
C26_BlocksAboveMargin ==
    (calc.fn = "renderLocationInformation" /\ calc.block.kind # "none") =>
        calc.block.bottom <= pageHeight - marginBottom

\* ------------------------------------------------- the pages of a project report
\* the pages 2 .. k + 1
pagesFromTwo(k) == [i \in 1..k |-> i + 1]

\* C27: with n locations and k = max(1, ceil(n / linesPerPage)), the index
\* pages are set aside before any detail page and are the pages 2 .. k + 1;
\* the first location starts on page k + 2, each location starts on the page
\* after the last page of the one before it, so that the recorded pages grow
\* with the locations; a project without locations gives two pages.
C27_IndexBeforeDetails ==
    LET n == Len(reportProject)
        k == IF n = 0 THEN 1 ELSE (n + linesPerPage - 1) \div linesPerPage
    IN  /\ pc = "allocate" => (summaries = <<>> /\ startPages = <<>>)
        /\ pc \in {"detail", "index", "save", "saved"} => indexPages = pagesFromTwo(k)
        /\ startPages # <<>> => startPages[1] = k + 2
        /\ \A i \in 1..Len(startPages) : \A j \in 1..Len(startPages) :
               i < j => startPages[i] < startPages[j]
        /\ \A i \in 1..(Len(startPages) - 1) :
               startPages[i + 1] = startPages[i] + reportProject[i].extraPages + 1
        /\ (n = 0 /\ pc \in {"save", "saved"}) => getNumberOfPages(doc) = 2

\* a report of fifty locations has been saved: two index pages, the first
\* location on page 4, the last one after every page the others took
C27_Witness ==
    /\ pc = "saved"
    /\ Len(reportProject) = 50
    /\ indexPages = <<2, 3>>
    /\ Len(startPages) = 50
    /\ startPages[1] = 4
    /\ startPages[50] > 53

\* ------------------------------------------ the page's handlers during a batch
\* handleStatusChange: the select is not disabled while pictures are uploaded
handleStatusChange(nextStatus, now) ==
    /\ pageLocation # <<>>
    /\ setSetStatus(routeId, pageLocation[1].id, nextStatus, now)
    /\ refreshLocation
    /\ toast' = IF last'.ret # "project" THEN [kind |-> "error"]
                ELSE IF pageLocation' # <<>> THEN [kind |-> "success"]
                ELSE toast
    /\ UNCHANGED upload

HandleStatusChange == \E nextStatus \in {"pending", "approved", "rejected"} :
    handleStatusChange(nextStatus, clock)

\* the page is the only writer of the store
NextBatch ==
    \/ (HandlePhotoSelection /\ UNCHANGED <<pdfVars, sideVars>>)
    \/ (PhotoPrepared /\ UNCHANGED <<pdfVars, sideVars>>)
    \/ (HandleRemovePhoto /\ UNCHANGED <<pdfVars, sideVars>>)
    \/ (HandleStatusChange /\ UNCHANGED <<pdfVars, sideVars>>)

SpecBatch == InitPhotos /\ [][NextBatch]_vars

\* C28: when a batch ends, the location the page holds is the stored one,
\* whatever the page's other handlers stored while the batch was waiting for
\* a picture.
C28_BatchEndsInSync ==
    [][(upload # noUpload /\ upload' = noUpload) =>
          pageLocation' = routeLocation(localStorage')]_vars

\* ------------------------------------------------ what an update leaves alone
\* between the collection before and after: nothing but the named field and
\* updatedAt of location locationId, and updatedAt of project projectId, differs
onlyChanges(projectId, locationId, field) ==
    /\ Len(localStorage') = Len(localStorage)
    /\ \A i \in 1..Len(localStorage) :
           LET before == localStorage[i]
               after == localStorage'[i]
           IN  IF before.id # projectId
               THEN after = before
               ELSE /\ [after EXCEPT !.updatedAt = before.updatedAt,
                                     !.locations = before.locations] = before
                    /\ Len(after.locations) = Len(before.locations)
                    /\ \A j \in 1..Len(before.locations) :
                           IF before.locations[j].id # locationId
                           THEN after.locations[j] = before.locations[j]
                           ELSE [after.locations[j] EXCEPT
                                    ![field] = before.locations[j][field],
                                    !.updatedAt = before.locations[j].updatedAt]
                                = before.locations[j]

\* C29: setSetStatus, setSetNotes, setSetCoords, addSetPhoto and removeSetPhoto
\* on location L of project P leave every other project and every other
\* location of P as they were, keep the order of P's locations, and keep L's
\* id and createdAt; only the field the operation is about, L's updatedAt and
\* P's updatedAt may differ afterwards.
C29_UpdateTouchesOnlyTarget ==
    [][\A projectId \in ProjectIds : \A locationId \in LocationIds(projectId) :
          /\ setSetStatus(projectId, locationId, OpsStatus, clock)
                 => onlyChanges(projectId, locationId, "status")
          /\ \A notes \in OpsNotes :
                 setSetNotes(projectId, locationId, notes, clock)
                     => onlyChanges(projectId, locationId, "notes")
          /\ setSetCoords(projectId, locationId, OpsCoords, clock)
                 => onlyChanges(projectId, locationId, "coords")
          /\ addSetPhoto(projectId, locationId, OpsPhoto, clock)
                 => onlyChanges(projectId, locationId, "photos")
          /\ \A identifier \in PhotoIds(projectId, locationId) \cup {DataUrl(1)} :
                 removeSetPhoto(projectId, locationId, identifier, clock)
                     => onlyChanges(projectId, locationId, "photos")]_vars

\* the first of two locations of a project has been approved and the second
\* is as it was created
C29_Witness ==
    /\ last.op = "setSetStatus"
    /\ last.ret = "project"
    /\ Len(localStorage) = 1
    /\ Len(localStorage[1].locations) = 2
    /\ localStorage[1].locations[1].status = "approved"
    /\ localStorage[1].locations[2].status = "pending"

\* ------------------------------------------------------ the end of a batch
\* A batch is started only while createId has an id left for each of its
\* files, so that the loop is never stopped by the bound on the ids.
BoundedPhotoSelection == \E files \in PhotoBatches :
    /\ nextId + Len(files) <= MaxPhotoIds + 1
    /\ handlePhotoSelection(files)

NextBatchFair ==
    \/ (BoundedPhotoSelection /\ UNCHANGED <<pdfVars, sideVars>>)
    \/ (PhotoPrepared /\ UNCHANGED <<pdfVars, sideVars>>)
    \/ (HandleRemovePhoto /\ UNCHANGED <<pdfVars, sideVars>>)

\* The promise of preparePhoto settles (createImageBitmap resolves or is
\* caught, the image element fires load or error), and the event loop runs
\* the rest of the turn once it has: the continuation is weakly fair.
SpecBatchFair ==
    /\ InitPhotos
    /\ [][NextBatchFair]_vars
    /\ WF_vars(PhotoPrepared /\ UNCHANGED <<pdfVars, sideVars>>)

\* C30: every batch ends with the uploading state cleared, whatever happens
\* to each of its files (read, rejected, duplicate, stored, not stored), so
\* that a later batch can be started.
C30_BatchTerminates == (upload # noUpload) ~> (upload = noUpload)

\* a batch whose file was rejected has ended
C30_Witness ==
    /\ upload = noUpload
    /\ last.op = "preparePhoto"
    /\ last.ret = "INVALID_IMAGE_DIMENSIONS"
    /\ toast.kind = "summary"
    /\ toast.failedCount = 1
    /\ ENABLED BoundedPhotoSelection

====
